---- MODULE Spec2Model ----
(***************************************************************************)
(* The TPSC self-consistency of the TRIQS tutorial notebooks               *)
(* TwoParticleResponse/04-TPSC.ipynb and 05-TPSC_MerminWagner.ipynb:       *)
(* chi_rpa, trace_chi, Usp_root, Uch_root and solve_tpsc, with scipy's     *)
(* bracketed root finder brentq as the search they drive.                  *)
(*                                                                         *)
(* Numbers.  The notebooks compute in double precision.  Here every real   *)
(* is an exact rational <<num, den>> in lowest terms with den > 0, a       *)
(* complex is a pair <<re, im>> of rationals, and <<0, 0>> stands for a    *)
(* non-finite double (the NaN/Inf a division by zero yields inside the     *)
(* array code).  The coupling axis is sampled on a grid of step 1.         *)
(***************************************************************************)
EXTENDS Integers, FiniteSets, Sequences, TLC

----------------------------------------------------------------------------
(* Bounds of the model.                                                    *)

\* number of momentum points of the Brillouin-zone mesh
NQ == 2
\* n_iw of the bosonic Matsubara mesh: indices -(N_IW-1) .. (N_IW-1)
N_IW == 2
\* chi0 takes the values 0/ChiDen .. MaxChi/ChiDen
MaxChi == 3
ChiDen == 4
\* the margin of the U_sp bracket below U_c, in grid steps (1e-6 in the code)
EpsSteps == 1
\* brentq's xtol, in grid steps (1e-2 in the code)
XTolSteps == 2

\* the upper end of the U_ch bracket
UchMax == 100

----------------------------------------------------------------------------
(* Exact rational arithmetic.                                              *)

Abs(i) == IF i < 0 THEN -i ELSE i

Sgn(i) == IF i < 0 THEN -1 ELSE IF i = 0 THEN 0 ELSE 1

RECURSIVE Gcd(_, _)
Gcd(a, b) == IF b = 0 THEN a ELSE Gcd(b, a % b)

NaN == <<0, 0>>

IsFinite(r) == r[2] # 0

\* num/den in lowest terms, the sign carried by the numerator
Rat(num, den) ==
    IF den = 0 THEN NaN
    ELSE IF den = 1 THEN <<num, 1>>
    ELSE LET g == Gcd(Abs(num), Abs(den))
             s == IF den < 0 THEN -1 ELSE 1
         IN  <<s * (num \div g), s * (den \div g)>>

RInt(i) == <<i, 1>>

RNeg(a) == <<-a[1], a[2]>>

RAdd(a, b) ==
    IF ~IsFinite(a) \/ ~IsFinite(b) THEN NaN
    ELSE IF a[1] = 0 THEN b
    ELSE IF b[1] = 0 THEN a
    ELSE IF a[2] = b[2] THEN Rat(a[1] + b[1], a[2])
    ELSE LET g == Gcd(a[2], b[2])
         IN  Rat(a[1] * (b[2] \div g) + b[1] * (a[2] \div g), a[2] * (b[2] \div g))

RSub(a, b) == RAdd(a, RNeg(b))

RMul(a, b) ==
    IF ~IsFinite(a) \/ ~IsFinite(b) THEN NaN
    ELSE IF a[1] = 0 \/ b[1] = 0 THEN <<0, 1>>
    ELSE LET g1 == Gcd(Abs(a[1]), b[2])
             g2 == Gcd(Abs(b[1]), a[2])
         IN  Rat((a[1] \div g1) * (b[1] \div g2), (a[2] \div g2) * (b[2] \div g1))

\* a / b; a zero divisor gives the non-finite value
RDiv(a, b) ==
    IF ~IsFinite(a) \/ ~IsFinite(b) \/ b[1] = 0 THEN NaN
    ELSE RMul(a, Rat(b[2], b[1]))

\* sign of a/b - c/d for a, c >= 0 and b, d > 0, by continued fractions
\* (no product is formed, so nothing overflows)
RECURSIVE CmpPos(_, _, _, _)
CmpPos(a, b, c, d) ==
    LET qa == a \div b
        qc == c \div d
        ra == a % b
        rc == c % d
    IN  IF qa # qc THEN Sgn(qa - qc)
        ELSE IF ra = 0 /\ rc = 0 THEN 0
        ELSE IF ra = 0 THEN -1
        ELSE IF rc = 0 THEN 1
        ELSE -CmpPos(b, ra, d, rc)

\* sign of a - b for finite rationals a, b
RCmp(a, b) ==
    IF a[2] = b[2] THEN Sgn(a[1] - b[1])
    ELSE IF Sgn(a[1]) # Sgn(b[1]) THEN Sgn(Sgn(a[1]) - Sgn(b[1]))
    ELSE IF a[1] >= 0 THEN CmpPos(a[1], a[2], b[1], b[2])
    ELSE CmpPos(-b[1], b[2], -a[1], a[2])

\* the largest integer <= r and the smallest integer >= r
Floor(r) == IF r[1] >= 0 THEN r[1] \div r[2] ELSE -((-r[1] + r[2] - 1) \div r[2])

Ceil(r) == -Floor(RNeg(r))

RLess(a, b) == RCmp(a, b) < 0

RLeq(a, b) == RCmp(a, b) <= 0

(* Complex numbers <<re, im>>.                                             *)

Cx(re, im) == <<re, im>>

CZero == Cx(RInt(0), RInt(0))

COne == Cx(RInt(1), RInt(0))

CAdd(z, w) == Cx(RAdd(z[1], w[1]), RAdd(z[2], w[2]))

CSub(z, w) == Cx(RSub(z[1], w[1]), RSub(z[2], w[2]))

CMul(z, w) ==
    Cx(RSub(RMul(z[1], w[1]), RMul(z[2], w[2])),
       RAdd(RMul(z[1], w[2]), RMul(z[2], w[1])))

\* r * z for a real r
CScale(r, z) == Cx(RMul(r, z[1]), RMul(r, z[2]))

CFinite(z) == IsFinite(z[1]) /\ IsFinite(z[2])

----------------------------------------------------------------------------
(* Meshes and Green's-function containers.                                 *)

\* linear indices of the momentum mesh (MeshBrZone)
kmesh == 0 .. (NQ - 1)

\* indices of a bosonic Matsubara mesh with n_iw = N_IW
wmesh == (1 - N_IW) .. (N_IW - 1)

\* MeshProduct(kmesh, wmesh): momentum first, frequency second
Mesh == kmesh \X wmesh

\* the momentum index of q = (pi, pi), Idx(n_k//2, n_k//2, 0)
QPi == NQ \div 2

\* the mesh point q = (pi, pi), zero bosonic frequency
PiPi0 == <<QPi, 0>>

\* a scalar-valued Gf on Mesh: the inverse temperature of its frequency
\* mesh and one complex number per mesh point
Gf(bt, data) == [beta |-> bt, data |-> data]

NoGf == [beta |-> NaN, data |-> <<>>]

Unset == <<>>

\* 1 / z for one complex number; 1 / 0 is not finite
CInv(z) ==
    LET m == RAdd(RMul(z[1], z[1]), RMul(z[2], z[2]))
    IN  Cx(RDiv(z[1], m), RDiv(RNeg(z[2]), m))

\* triqs.gf.inverse on a scalar-valued Gf: pointwise, on the same mesh
inverse(g) == Gf(g.beta, [p \in DOMAIN g.data |-> CInv(g.data[p])])

\* s * g for a real scalar s
GfScale(s, g) == Gf(g.beta, [p \in DOMAIN g.data |-> CScale(s, g.data[p])])

\* s - g for a real scalar s
GfRSub(s, g) ==
    Gf(g.beta, [p \in DOMAIN g.data |-> CSub(Cx(s, RInt(0)), g.data[p])])

\* g * h for scalar-valued Gfs on one mesh: pointwise
GfMul(g, h) ==
    Gf(g.beta, [p \in DOMAIN g.data |-> CMul(g.data[p], h.data[p])])

Half == Rat(1, 2)

chi_rpa_inverse_only(g, Ucpl) ==
    inverse(GfRSub(RInt(1), GfScale(RMul(Half, Ucpl), g)))

chi_rpa_wrong_sign(g, Ucpl) ==
    GfMul(g, inverse(GfRSub(RInt(1), GfScale(RNeg(RMul(Half, Ucpl)), g))))

\* chi_rpa(chi0, U) = chi0 * inverse(1 - 0.5 * U * chi0)
chi_rpa(g, Ucpl) ==
    GfMul(g, inverse(GfRSub(RInt(1), GfScale(RMul(Half, Ucpl), g))))

----------------------------------------------------------------------------
(* Inputs.                                                                 *)

\* a susceptibility with value a at (pi, pi, 0), b at the other momenta at
\* zero frequency and c at every non-zero frequency
Profile(a, b, c) ==
    [p \in Mesh |-> IF p = PiPi0 THEN a ELSE IF p[2] = 0 THEN b ELSE c]

\* inverse temperatures of the frequency mesh
Betas == {RInt(1), RInt(2)}

\* complex sample values for the pointwise functions
CVals == {Cx(Rat(a, ChiDen), Rat(b, ChiDen)) : a \in {-1, 0, 2}, b \in {0, 1}}

\* couplings the pointwise functions are applied with (U_sp, -U_ch, U, 0)
URpa == {RInt(-4), RInt(-1), RInt(0), RInt(1), RInt(4)}

\* real sample values of a Lindhard bubble
ChiVals == {Rat(r, ChiDen) : r \in 0 .. MaxChi}

Real(r) == Cx(r, RInt(0))

\* the susceptibilities solve_tpsc is called with: real, non-negative, and
\* largest at q = (pi, pi), zero frequency, where the value is positive
Chi0Inputs ==
    {Gf(bt, Profile(Real(a), Real(b), Real(c))) :
        <<a, b, c, bt>> \in
            {v \in ChiVals \X ChiVals \X ChiVals \X Betas :
                /\ RLess(RInt(0), v[1])
                /\ RLeq(v[2], v[1])
                /\ RLeq(v[3], v[1])}}

\* densities n and bare couplings U of a call
Densities == {Rat(1, 2), RInt(1)}

UBare == {RInt(2), RInt(4)}

----------------------------------------------------------------------------
(* The TPSC functions.                                                     *)

RECURSIVE CSum(_, _)
\* the sum of data over the points S (chi.data.sum())
CSum(data, S) ==
    IF S = {} THEN CZero
    ELSE LET p == CHOOSE q \in S : TRUE
         IN  CAdd(data[p], CSum(data, S \ {p}))

\* len(kmesh) of the mesh a Gf lives on
NumK(g) == Cardinality({p[1] : p \in DOMAIN g.data})

trace_chi_no_beta(g) ==
    LET s == CSum(g.data, DOMAIN g.data)
    IN  RDiv(s[1], RInt(NumK(g)))

\* trace = chi.data.sum() / len(kmesh) / wmesh.beta ; return trace.real
trace_chi(g) ==
    LET s == CSum(g.data, DOMAIN g.data)
        trace == Cx(RDiv(RDiv(s[1], RInt(NumK(g))), g.beta),
                    RDiv(RDiv(s[2], RInt(NumK(g))), g.beta))
    IN  trace[1]

\* trace_chi of notebook 04:
\* trace = chi.data.sum() / len(kmesh) / wmesh.beta ; return trace.real
trace_chi_04(g) ==
    LET s == CSum(g.data, DOMAIN g.data)
        trace == Cx(RDiv(RDiv(s[1], RInt(NumK(g))), g.beta),
                    RDiv(RDiv(s[2], RInt(NumK(g))), g.beta))
    IN  trace[1]

StonerUc_no_half(g) == RDiv(RInt(4), g.data[PiPi0][1])

StonerUc_no_factor(g) == RDiv(RInt(1), g.data[PiPi0][1])

\* U_c = 2 / chi0([pi, pi, 0], 0).real
StonerUc(g) == RDiv(RInt(2), g.data[PiPi0][1])

chi_sp_charge_sign(g, x) == chi_rpa(g, RNeg(x))

\* the spin susceptibility Usp_root builds: chi_rpa(chi0, U=Usp)
chi_sp(g, x) == chi_rpa(g, x)

\* the charge susceptibility Uch_root builds: chi_rpa(chi0, U=-Uch)
chi_ch(g, x) == chi_rpa(g, RNeg(x))

\* the largest U_c of the inputs
UspMax == 2 * ChiDen

\* trace_chi(chi_rpa(chi0, U=Usp)) at every grid coupling Usp, computed once
tr_chi_sp_table ==
    [g \in Chi0Inputs |->
        [x \in 0 .. UspMax |-> trace_chi(chi_sp(g, RInt(x)))]]

\* trace_chi(chi_rpa(chi0, U=-Uch)) at every grid coupling Uch, computed once
tr_chi_ch_table ==
    [g \in Chi0Inputs |->
        [x \in 0 .. UchMax |-> trace_chi(chi_ch(g, RInt(x)))]]

\* tr_chi_sp = trace_chi(chi_rpa(chi0, U=Usp))
tr_chi_sp(g, x) ==
    IF x[2] = 1 /\ x[1] \in 0 .. UspMax /\ g \in Chi0Inputs
    THEN tr_chi_sp_table[g][x[1]]
    ELSE trace_chi(chi_sp(g, x))

\* tr_chi = trace_chi(chi_rpa(chi0, U=-Uch))
tr_chi_ch(g, x) ==
    IF x[2] = 1 /\ x[1] \in 0 .. UchMax /\ g \in Chi0Inputs
    THEN tr_chi_ch_table[g][x[1]]
    ELSE trace_chi(chi_ch(g, x))

Usp_root_quarter_ansatz(x, g, dens, Ubare) ==
    LET ansatz == RMul(RDiv(RMul(Rat(1, 4), x), Ubare), RMul(dens, dens))
    IN  RCmp(tr_chi_sp(g, x), RSub(dens, ansatz))

Usp_root_minus_ansatz(x, g, dens, Ubare) ==
    LET ansatz == RMul(RDiv(RMul(Half, x), Ubare), RMul(dens, dens))
    IN  RCmp(tr_chi_sp(g, x), RAdd(dens, ansatz))

Usp_root_no_ansatz(x, g, dens, Ubare) ==
    RCmp(tr_chi_sp(g, x), dens)

\* Usp_root(Usp, chi0, n, U): diff = tr_chi_sp + 0.5 * Usp/U * n**2 - n.
\* The value is the sign of diff (-1, 0, 1), which is what the search below
\* reads of it.
Usp_root(x, g, dens, Ubare) ==
    LET ansatz == RMul(RDiv(RMul(Half, x), Ubare), RMul(dens, dens))
    IN  RCmp(tr_chi_sp(g, x), RSub(dens, ansatz))

Uch_root_no_docc(x, g, dens, Ubare, d) ==
    RCmp(tr_chi_ch(g, x), RSub(dens, RMul(dens, dens)))

\* Uch_root(Uch, chi0, n, U, docc): diff = tr_chi - 2 * docc - n + n**2;
\* again the sign of diff
Uch_root(x, g, dens, Ubare, d) ==
    RCmp(tr_chi_ch(g, x), RSub(RAdd(RMul(RInt(2), d), dens), RMul(dens, dens)))

DoubleOcc_half(usp, Ubare, dens) ==
    RMul(RDiv(RMul(Half, usp), Ubare), RMul(dens, dens))

\* docc = 0.25 * Usp / U * n**2
DoubleOcc(usp, Ubare, dens) ==
    RMul(RDiv(RMul(Rat(1, 4), usp), Ubare), RMul(dens, dens))

----------------------------------------------------------------------------
(* solve_tpsc and the root search it runs twice.                           *)

----------------------------------------------------------------------------
(* IEEE double-precision numbers, as the operator coefficients of the      *)
(* VB-DMFT notebook are.  A non-zero double is sign * m * 2^e with a        *)
(* 53-bit significand 2^52 <= m < 2^53, held as the pair <<hi, lo>> of its  *)
(* digits in base 2^27; results are rounded to nearest, ties to even.       *)

\* the number of significand bits of a double
MantBits == 53

Limb == 2 ^ 27

LGe(a, b) == a[1] > b[1] \/ (a[1] = b[1] /\ a[2] >= b[2])

\* a - b for a >= b
LSub(a, b) ==
    IF a[2] >= b[2] THEN <<a[1] - b[1], a[2] - b[2]>>
    ELSE <<a[1] - b[1] - 1, a[2] + Limb - b[2]>>

LAdd(a, b) ==
    <<a[1] + b[1] + ((a[2] + b[2]) \div Limb), (a[2] + b[2]) % Limb>>

\* a shifted right by d bits (d is 1 or 2), and the bits shifted out
LShr(a, d) ==
    <<a[1] \div (2 ^ d),
      (a[1] % (2 ^ d)) * (Limb \div (2 ^ d)) + (a[2] \div (2 ^ d))>>

LLow(a, d) == a[2] % (2 ^ d)

\* 2^52 and 2^53 as digit pairs
LMin == <<2 ^ (MantBits - 1 - 27), 0>>

LTop == <<2 ^ (MantBits - 27), 0>>

DblZero == [sign |-> 0, m |-> <<0, 0>>, e |-> 0]

Dbl(sign, hi, lo, e) == [sign |-> sign, m |-> <<hi, lo>>, e |-> e]

DblOne == Dbl(1, 2 ^ (MantBits - 1 - 27), 0, 1 - MantBits)

\* 2^e, positive
DblPow2(e) == [DblOne EXCEPT !.e = e + 1 - MantBits]

DblNeg(x) == [x EXCEPT !.sign = -x.sign]

\* q with its d lowest bits rounded away (sticky: non-zero bits lie below
\* them), as sign * significand * 2^e, the significand brought back into
\* range when rounding carries
DblRound(sign, q, d, sticky, e) ==
    LET low  == LLow(q, d)
        half == 2 ^ (d - 1)
        qs   == LShr(q, d)
        up   == \/ low > half
                \/ low = half /\ (sticky \/ qs[2] % 2 = 1)
        m1   == IF up THEN LAdd(qs, <<0, 1>>) ELSE qs
    IN  IF m1 = LTop THEN [sign |-> sign, m |-> LMin, e |-> e + d + 1]
        ELSE [sign |-> sign, m |-> m1, e |-> e + d]

\* one step of long division by y: from <<quotient bits so far, remainder>>
DivStep(st, y) ==
    IF LGe(st[2], y)
    THEN <<LAdd(LAdd(st[1], st[1]), <<0, 1>>),
           LAdd(LSub(st[2], y), LSub(st[2], y))>>
    ELSE <<LAdd(st[1], st[1]), LAdd(st[2], st[2])>>

RECURSIVE DivLoop(_, _, _)
\* k steps of long division by y from st, taken in two halves, the second
\* started once the first has been computed
DivLoop(st, y, k) ==
    IF k = 0 THEN st
    ELSE IF k = 1 THEN DivStep(st, y)
    ELSE LET mid == DivLoop(st, y, k \div 2)
         IN  IF mid[2][1] >= 0 THEN DivLoop(mid, y, k - (k \div 2)) ELSE mid

\* x / y for y # 0
DblDiv(x, y) ==
    IF x.sign = 0 THEN DblZero
    ELSE LET res == DivLoop(<<(<<0, 0>>), x.m>>, y.m, MantBits + 2)
             q   == res[1]
             d   == IF LGe(q, <<Limb, 0>>) THEN 2 ELSE 1
         IN  DblRound(x.sign * y.sign, q, d, res[2] # <<0, 0>>,
                      x.e - y.e - (MantBits + 1))

\* a significand below 2^52 shifted up by one bit
NormStep(x) ==
    IF LGe(x.m, LMin) THEN x
    ELSE [x EXCEPT !.m = LAdd(x.m, x.m), !.e = x.e - 1]

RECURSIVE NormLoop(_, _)
\* k steps of NormStep, taken in two halves
NormLoop(x, k) ==
    IF k = 0 THEN x
    ELSE IF k = 1 THEN NormStep(x)
    ELSE LET mid == NormLoop(x, k \div 2)
         IN  IF mid.e <= x.e THEN NormLoop(mid, k - (k \div 2)) ELSE mid

\* sign * a * 2^e for 0 < a < 2^53, the significand shifted up into range
DblNormal(sign, a, e) == NormLoop([sign |-> sign, m |-> a, e |-> e], MantBits)

\* x + y for operands that are zero or have the same exponent (every sum
\* taken below is of this kind)
DblAdd(x, y) ==
    IF x.sign = 0 THEN y
    ELSE IF y.sign = 0 THEN x
    ELSE IF x.sign = y.sign
         THEN DblRound(x.sign, LAdd(x.m, y.m), 1, FALSE, x.e)
    ELSE IF x.m = y.m THEN DblZero
    ELSE IF LGe(x.m, y.m) THEN DblNormal(x.sign, LSub(x.m, y.m), x.e)
    ELSE DblNormal(y.sign, LSub(y.m, x.m), x.e)

\* np.sqrt(2): the double nearest to the square root of 2,
\* 6369051672525773 * 2^-52 = 1.4142135623730951
Sqrt2 == Dbl(1, 47453132, 109001677, -52)

VARIABLES
    chi0, U, n,          \* the arguments of the call
    pc,                  \* the statement about to run
    chi,                 \* the value a chi_rpa call returned
    Uc, Usp, docc, Uch,  \* the locals of solve_tpsc
    ret,                 \* what solve_tpsc returned
    bq,                  \* brentq: "idle", or "loop" inside its iteration
    args,                \* brentq: the args tuple it was called with
    xa, xb,              \* brentq: the two ends of the current bracket
    fa, fb,              \* brentq: the signs of the residual at xa and xb
    tr_chi,              \* the value a trace_chi call returned
    t,                   \* the hopping amplitude get_chi0 reads
    idx, T, beta,        \* the temperature loop: index, temperature, 1/T
    S_rpa,               \* the temperature loop: the structure factor of T
    S_rpa_vec,           \* the temperature loop: the array it fills
    report,              \* the TPSC sweep: one record per temperature done
    h5,                  \* the archive files: name -> (key -> stored value)
    fh,                  \* the open archive handles, per process
    session,             \* the notebook session (kernel run) going on
    cn, nn,              \* VB-DMFT: the dictionaries of site-basis operators
    spin,                \* VB-DMFT: the position of the loop over spins
    ppc,                 \* VB-DMFT: per MPI process, the statement about to run
    it,                  \* VB-DMFT: per MPI process, the DMFT iteration
    solver,              \* VB-DMFT: per MPI process, the impurity solver S
    iwmesh, iwarr, karr, \* get_chi0: the frequency mesh and the two arrays
    G0,                  \* get_chi0: the free Green's function
    grt,                 \* bubble: G0 transformed to (r, tau)
    mtb,                 \* bubble: the bosonic imaginary-time mesh
    chi0_rt,             \* bubble: the local chi0 on (r, tau)
    rt                   \* bubble: the position of the two nested loops

vars == <<chi0, U, n, pc, chi, Uc, Usp, docc, Uch, ret, bq, args, xa, xb, fa, fb,
          tr_chi, t, idx, T, beta, S_rpa, S_rpa_vec, report,
          h5, fh, session, cn, nn, spin, ppc, it, solver,
          iwmesh, iwarr, karr, G0, grt, mtb, chi0_rt, rt>>

inputs == <<chi0, U, n>>

locals == <<Uc, Usp, docc, Uch>>

search == <<bq, args, xa, xb, fa, fb>>

loop == <<t, idx, T, beta, S_rpa, S_rpa_vec, report>>

store == <<h5, fh, session>>

vbdmft == <<cn, nn, spin, ppc, it, solver>>

lindhard == <<iwmesh, iwarr, karr, G0, grt, mtb, chi0_rt, rt>>

others == <<store, vbdmft, lindhard>>

\* no call of get_chi0 is being followed statement by statement
NoLindhard ==
    /\ iwmesh = Unset /\ iwarr = Unset /\ karr = Unset /\ G0 = Unset
    /\ grt = Unset /\ mtb = Unset /\ chi0_rt = Unset /\ rt = Unset

\* the VB-DMFT notebook is not running
NoVbdmft ==
    /\ cn = Unset /\ nn = Unset /\ spin = Unset
    /\ ppc = Unset /\ it = Unset /\ solver = Unset

\* no archive is in use and the VB-DMFT notebook is not running
NoOthers ==
    h5 = Unset /\ fh = Unset /\ session = Unset /\ NoVbdmft /\ NoLindhard

\* no temperature loop is running
NoLoop ==
    /\ t = Unset /\ idx = Unset /\ T = Unset /\ beta = Unset
    /\ S_rpa = Unset /\ S_rpa_vec = Unset /\ report = Unset

\* a call solve_tpsc(chi0, U, n) about to run its first statement
Init ==
    /\ chi0 \in Chi0Inputs
    /\ U \in UBare
    /\ n \in Densities
    /\ pc = "Uc"
    /\ chi = NoGf
    /\ Uc = Unset /\ Usp = Unset /\ docc = Unset /\ Uch = Unset
    /\ ret = Unset
    /\ bq = "idle" /\ args = Unset
    /\ xa = Unset /\ xb = Unset /\ fa = 0 /\ fb = 0
    /\ tr_chi = Unset
    /\ NoLoop
    /\ NoOthers

\* Uc = 2/chi0([np.pi,np.pi,0],0).real
SetUc ==
    /\ pc = "Uc"
    /\ chi0.data[PiPi0][1] # RInt(0)
    /\ Uc' = StonerUc(chi0)
    /\ pc' = "Usp"
    /\ UNCHANGED <<inputs, tr_chi, loop, chi, Usp, docc, Uch, ret, search>>
    /\ UNCHANGED others

\* the residual brentq was handed, at x
Residual(x) ==
    IF pc = "Usp" THEN Usp_root(x, args[1], args[2], args[3])
    ELSE Uch_root(x, args[1], args[2], args[3], args[4])

\* the statement after the search returns r
Assign(r) ==
    IF pc = "Usp"
    THEN Usp' = r /\ pc' = "docc" /\ UNCHANGED <<Uc, docc, Uch>>
    ELSE Uch' = r /\ pc' = "return" /\ UNCHANGED <<Uc, Usp, docc>>

BracketSp_plus_eps == <<RInt(0), RAdd(Uc, RInt(EpsSteps))>>

\* the bracket of the U_sp search: 0, Uc-1e-6
BracketSp == <<RInt(0), RSub(Uc, RInt(EpsSteps))>>

\* the bracket of the U_ch search: 0, 100
BracketCh == <<RInt(0), RInt(UchMax)>>

ArgsSp == <<chi0, n, U>>

ArgsCh == <<chi0, n, U, docc>>

\* brentq(f, a, b, args, xtol) is entered: f(a) and f(b) are evaluated; a
\* zero at an end is returned at once, equal signs raise ValueError,
\* otherwise the iteration starts on the bracket (a, b)
BrentqCall ==
    /\ pc \in {"Usp", "Uch"}
    /\ bq = "idle"
    /\ (pc = "Usp") => (U # RInt(0))
    /\ LET ab == IF pc = "Usp" THEN BracketSp ELSE BracketCh
           ar == IF pc = "Usp" THEN ArgsSp ELSE ArgsCh
           fpre == IF pc = "Usp" THEN Usp_root(ab[1], ar[1], ar[2], ar[3])
                   ELSE Uch_root(ab[1], ar[1], ar[2], ar[3], ar[4])
           fcur == IF pc = "Usp" THEN Usp_root(ab[2], ar[1], ar[2], ar[3])
                   ELSE Uch_root(ab[2], ar[1], ar[2], ar[3], ar[4])
       IN  /\ args' = ar
           /\ xa' = ab[1] /\ xb' = ab[2]
           /\ fa' = fpre /\ fb' = fcur
           /\ \/ /\ fpre = 0
                 /\ Assign(ab[1])
                 /\ bq' = "idle"
              \/ /\ fpre # 0 /\ fcur = 0
                 /\ Assign(ab[2])
                 /\ bq' = "idle"
              \/ /\ fpre # 0 /\ fcur # 0 /\ fpre = fcur
                 /\ pc' = "raised"
                 /\ bq' = "idle"
                 /\ UNCHANGED locals
              \/ /\ fpre # 0 /\ fcur # 0 /\ fpre # fcur
                 /\ bq' = "loop"
                 /\ UNCHANGED <<pc, locals>>
    /\ UNCHANGED <<inputs, tr_chi, loop, chi, ret>>
    /\ UNCHANGED others

\* the ends of the bracket in increasing order
Lo == IF RLess(xa, xb) THEN xa ELSE xb

Hi == IF RLess(xa, xb) THEN xb ELSE xa

\* |xb - xa| < xtol: the half-width of the bracket is below delta
Converged == RLess(RSub(Hi, Lo), RInt(XTolSteps))

\* the grid points strictly inside the bracket
Inside == (Floor(Lo) + 1) .. (Ceil(Hi) - 1)

\* the next trial point of an iteration: brentq moves the current end xcur
\* (either end of the bracket) by the bisection step sbis or by the smallest
\* step it takes, delta, here one grid step; an accepted interpolation
\* falls between the two and reaches no bracket these do not reach
Trials ==
    LET lo == Floor(Lo)
        hi == Ceil(Hi)
        sbis == Floor(RMul(Half, RAdd(xa, xb)))
    IN  {lo + 1, hi - 1, sbis} \cap Inside

\* one iteration of brentq that does not return: the residual is evaluated
\* at the trial point, which replaces the end whose residual has the same
\* sign; a trial point with a zero residual is returned
BrentqIterate ==
    /\ pc \in {"Usp", "Uch"}
    /\ bq = "loop"
    /\ ~Converged
    /\ \E x \in Trials :
          LET fx == Residual(RInt(x))
          IN  \/ /\ fx = 0
                 /\ Assign(RInt(x))
                 /\ bq' = "idle"
                 /\ UNCHANGED <<xa, xb, fa, fb>>
              \/ /\ fx # 0 /\ fx = fa
                 /\ xa' = RInt(x)
                 /\ UNCHANGED <<pc, locals, bq, xb, fa, fb>>
              \/ /\ fx # 0 /\ fx = fb
                 /\ xb' = RInt(x)
                 /\ UNCHANGED <<pc, locals, bq, xa, fa, fb>>
    /\ UNCHANGED <<inputs, tr_chi, loop, chi, ret, args>>
    /\ UNCHANGED others

\* brentq returns xcur, the end of the bracket with the smaller |f|, once
\* the bracket is narrower than xtol (either end here)
BrentqReturn ==
    /\ pc \in {"Usp", "Uch"}
    /\ bq = "loop"
    /\ Converged
    /\ \E xcur \in {xa, xb} : Assign(xcur)
    /\ bq' = "idle"
    /\ UNCHANGED <<inputs, tr_chi, loop, chi, ret, args, xa, xb, fa, fb>>
    /\ UNCHANGED others

\* docc = 0.25 * Usp / U * n**2
SetDocc ==
    /\ pc = "docc"
    /\ docc' = DoubleOcc(Usp, U, n)
    /\ pc' = "Uch"
    /\ UNCHANGED <<inputs, tr_chi, loop, chi, Uc, Usp, Uch, ret, search>>
    /\ UNCHANGED others

ReturnValue_swapped == <<Usp, docc, Uch, Uc>>

\* the tuple of the return statement
ReturnValue == <<Usp, Uch, docc, Uc>>

\* return Usp, Uch, docc, Uc
Return ==
    /\ pc = "return"
    /\ ret' = ReturnValue
    /\ pc' = "done"
    /\ UNCHANGED <<inputs, tr_chi, loop, chi, locals, search>>
    /\ UNCHANGED others

Next ==
    \/ SetUc
    \/ BrentqCall
    \/ BrentqIterate
    \/ BrentqReturn
    \/ SetDocc
    \/ Return

Spec == Init /\ [][Next]_vars

----------------------------------------------------------------------------
(* solve_tpsc called with a zero among its scalar divisors: the real part  *)
(* of chi0 at (pi, pi), zero frequency, which Uc = 2/... divides by, and    *)
(* the bare U, which Usp_root divides by.  Both are Python floats, whose    *)
(* division by zero raises ZeroDivisionError.                               *)

\* susceptibilities that vanish at (pi, pi), zero frequency
Chi0ZeroPeak ==
    {Gf(bt, Profile(Real(RInt(0)), Real(b), Real(RInt(0)))) :
        b \in {RInt(0), Rat(1, ChiDen)}, bt \in Betas}

InitZero ==
    /\ chi0 \in {g \in Chi0Inputs : g.beta = RInt(1)} \cup Chi0ZeroPeak
    /\ U \in UBare \cup {RInt(0)}
    /\ n = RInt(1)
    /\ pc = "Uc"
    /\ chi = NoGf
    /\ Uc = Unset /\ Usp = Unset /\ docc = Unset /\ Uch = Unset
    /\ ret = Unset
    /\ bq = "idle" /\ args = Unset
    /\ xa = Unset /\ xb = Unset /\ fa = 0 /\ fb = 0
    /\ tr_chi = Unset
    /\ NoLoop
    /\ NoOthers

\* Uc = 2/chi0([np.pi,np.pi,0],0).real with a zero real part
SetUcZeroDivision ==
    /\ pc = "Uc"
    /\ chi0.data[PiPi0][1] = RInt(0)
    /\ pc' = "ZeroDivisionError"
    /\ UNCHANGED <<inputs, tr_chi, loop, chi, locals, ret, search>>
    /\ UNCHANGED others

UspRootZeroDivision_returns_zero ==
    /\ pc = "Usp"
    /\ bq = "idle"
    /\ U = RInt(0)
    /\ Usp' = RInt(0) /\ docc' = RInt(0) /\ Uch' = RInt(0)
    /\ ret' = <<RInt(0), RInt(0), RInt(0), Uc>>
    /\ pc' = "done"
    /\ UNCHANGED <<inputs, tr_chi, loop, chi, Uc, search>>
    /\ UNCHANGED others

\* brentq's first evaluation, Usp_root(0, chi0, n, U) with U = 0:
\* 0.5 * Usp/U divides by U and the exception leaves brentq and solve_tpsc
UspRootZeroDivision ==
    /\ pc = "Usp"
    /\ bq = "idle"
    /\ U = RInt(0)
    /\ pc' = "ZeroDivisionError"
    /\ UNCHANGED <<inputs, tr_chi, loop, chi, locals, ret, search>>
    /\ UNCHANGED others

NextZero ==
    \/ SetUc
    \/ SetUcZeroDivision
    \/ BrentqCall
    \/ UspRootZeroDivision
    \/ BrentqIterate
    \/ BrentqReturn
    \/ SetDocc
    \/ Return

SpecZero == InitZero /\ [][NextZero]_vars

----------------------------------------------------------------------------
(* The susceptibility functions on their own: one call of chi_rpa, of the  *)
(* spin susceptibility or of the charge susceptibility, on a chi0 with     *)
(* complex values and a coupling of either sign.                           *)

InitRpa ==
    /\ \E a \in CVals, b \in CVals, c \in CVals, bt \in Betas :
          chi0 = Gf(bt, Profile(a, b, c))
    /\ U \in URpa
    /\ Usp = U /\ Uch = U
    /\ n = Unset
    /\ pc = "call"
    /\ chi = NoGf
    /\ Uc = Unset /\ docc = Unset
    /\ ret = Unset
    /\ bq = "idle" /\ args = Unset
    /\ xa = Unset /\ xb = Unset /\ fa = 0 /\ fb = 0
    /\ tr_chi = Unset
    /\ NoLoop
    /\ NoOthers

\* chi_rpa(chi0, U)
Call_chi_rpa ==
    /\ pc = "call"
    /\ chi' = chi_rpa(chi0, U)
    /\ pc' = "chi_rpa"
    /\ UNCHANGED <<inputs, tr_chi, loop, locals, ret, search>>
    /\ UNCHANGED others

\* chi_rpa(chi0, U=Usp), as in Usp_root
Call_chi_sp ==
    /\ pc = "call"
    /\ chi' = chi_sp(chi0, Usp)
    /\ pc' = "chi_sp"
    /\ UNCHANGED <<inputs, tr_chi, loop, locals, ret, search>>
    /\ UNCHANGED others

\* chi_rpa(chi0, U=-Uch), as in Uch_root
Call_chi_ch ==
    /\ pc = "call"
    /\ chi' = chi_ch(chi0, Uch)
    /\ pc' = "chi_ch"
    /\ UNCHANGED <<inputs, tr_chi, loop, locals, ret, search>>
    /\ UNCHANGED others

\* trace_chi(chi) on the susceptibility just computed
Call_trace_chi ==
    /\ pc \in {"chi_rpa", "chi_sp", "chi_ch"}
    /\ tr_chi' = trace_chi(chi)
    /\ pc' = "trace_chi"
    /\ UNCHANGED <<inputs, loop, chi, locals, ret, search>>
    /\ UNCHANGED others

NextRpa ==
    \/ Call_chi_rpa
    \/ Call_chi_sp
    \/ Call_chi_ch
    \/ Call_trace_chi

SpecRpa == InitRpa /\ [][NextRpa]_vars

----------------------------------------------------------------------------
(* The temperature loop of the RPA structure factor: for each T of        *)
(* T_rpa_vec, beta = 1/T, chi0_qw = get_chi0(beta), chi = chi_rpa(chi0_qw, *)
(* U), S_rpa = the sum over frequencies of chi at (pi, pi), stored in      *)
(* S_rpa_vec[idx].  The row the loop prints changes no state.              *)

\* np.arange(start, stop, step)
arange(start, stop, step) ==
    LET len == Ceil(RDiv(RSub(stop, start), step))
    IN  [i \in 1 .. (IF len > 0 THEN len ELSE 0) |->
            RAdd(start, RMul(RInt(i - 1), step))]

T_rpa_vec_ascending ==
    arange(Rat(4, 5), RInt(3), Rat(1, 5)) \o arange(RInt(3), RInt(5), RInt(1))

T_rpa_vec_past_Tc ==
    arange(RInt(4), RInt(3), RInt(-1)) \o arange(RInt(3), Rat(1, 2), Rat(-1, 5))

\* np.concatenate((np.arange(4., 3., -1.), np.arange(3, 0.75, -0.2)))
T_rpa_vec ==
    arange(RInt(4), RInt(3), RInt(-1)) \o arange(RInt(3), Rat(3, 4), Rat(-1, 5))

\* np.zeros_like
zeros_like(v) == [i \in DOMAIN v |-> RInt(0)]

\* the hopping amplitudes the loop is run with
Hoppings == {RInt(1), RInt(2)}

\* get_chi0(beta): the bubble of the free Green's function at inverse
\* temperature beta.  The Fourier transforms are TRIQS library code; the
\* result is represented by a function of beta and t alone that lives on
\* the mesh of inverse temperature beta, is real and non-negative, and has
\* its maximum (3/8) beta / t at (pi, pi), zero frequency, which for
\* U = 4, t = 1 puts the RPA divergence at T = 0.75
get_chi0(bt, hop) ==
    Gf(bt, Profile(Real(RDiv(RMul(Rat(3, 8), bt), hop)),
                   Real(RDiv(RMul(Rat(3, 16), bt), hop)),
                   Real(RDiv(RMul(Rat(3, 32), bt), hop))))

\* chi[Idx(n_k//2, n_k//2, 0), :].data.sum().real
SumAtPiPi(g) == CSum([w \in wmesh |-> g.data[<<QPi, w>>]], wmesh)[1]

InitSweep ==
    /\ U \in UBare
    /\ t \in Hoppings
    /\ S_rpa_vec = zeros_like(T_rpa_vec)
    /\ pc = "for"
    /\ idx = -1 /\ T = Unset /\ beta = Unset /\ S_rpa = Unset
    /\ report = Unset
    /\ chi0 = NoGf /\ chi = NoGf
    /\ n = Unset
    /\ Uc = Unset /\ Usp = Unset /\ docc = Unset /\ Uch = Unset
    /\ ret = Unset
    /\ bq = "idle" /\ args = Unset
    /\ xa = Unset /\ xb = Unset /\ fa = 0 /\ fb = 0
    /\ tr_chi = Unset
    /\ NoOthers

\* the index enumerate() yields next (idx is -1 before the first one)
NextIdx == idx + 1

\* for idx, T in enumerate(T_rpa_vec): the next element
ForNext ==
    /\ pc = "for"
    /\ NextIdx < Len(T_rpa_vec)
    /\ idx' = NextIdx
    /\ T' = T_rpa_vec[NextIdx + 1]
    /\ pc' = "beta"
    /\ UNCHANGED <<chi0, U, n, chi, locals, ret, search, tr_chi, t, beta, S_rpa,
                   S_rpa_vec, report>>
    /\ UNCHANGED others

\* for idx, T in enumerate(T_rpa_vec): the vector is exhausted
ForEnd ==
    /\ pc = "for"
    /\ NextIdx >= Len(T_rpa_vec)
    /\ pc' = "end"
    /\ UNCHANGED <<inputs, chi, locals, ret, search, tr_chi, loop>>
    /\ UNCHANGED others

\* beta = 1. / T
SetBeta ==
    /\ pc = "beta"
    /\ beta' = RDiv(RInt(1), T)
    /\ pc' = "chi0_qw"
    /\ UNCHANGED <<inputs, chi, locals, ret, search, tr_chi, t, idx, T, S_rpa,
                   S_rpa_vec, report>>
    /\ UNCHANGED others

SetChi0_once ==
    /\ pc = "chi0_qw"
    /\ chi0' = (IF chi0 = NoGf THEN get_chi0(beta, t) ELSE chi0)
    /\ pc' = "chi"
    /\ UNCHANGED <<U, n, chi, locals, ret, search, tr_chi, loop>>
    /\ UNCHANGED others

\* chi0_qw = get_chi0(beta)
SetChi0 ==
    /\ pc = "chi0_qw"
    /\ chi0' = get_chi0(beta, t)
    /\ pc' = "chi"
    /\ UNCHANGED <<U, n, chi, locals, ret, search, tr_chi, loop>>
    /\ UNCHANGED others

\* chi = chi_rpa(chi0_qw, U)
SetChi ==
    /\ pc = "chi"
    /\ chi' = chi_rpa(chi0, U)
    /\ pc' = "S_rpa"
    /\ UNCHANGED <<inputs, locals, ret, search, tr_chi, loop>>
    /\ UNCHANGED others

\* S_rpa = chi[Idx(n_k//2, n_k//2, 0), :].data.sum().real
SetS ==
    /\ pc = "S_rpa"
    /\ S_rpa' = SumAtPiPi(chi)
    /\ pc' = "S_rpa_vec"
    /\ UNCHANGED <<inputs, chi, locals, ret, search, tr_chi, t, idx, T, beta,
                   S_rpa_vec, report>>
    /\ UNCHANGED others

Record_first_entry ==
    /\ pc = "S_rpa_vec"
    /\ S_rpa_vec' = [S_rpa_vec EXCEPT ![1] = S_rpa]
    /\ pc' = "for"
    /\ UNCHANGED <<inputs, chi, locals, ret, search, tr_chi, t, idx, T, beta,
                   S_rpa, report>>
    /\ UNCHANGED others

\* S_rpa_vec[idx] = S_rpa, and the row is printed
Record ==
    /\ pc = "S_rpa_vec"
    /\ S_rpa_vec' = [S_rpa_vec EXCEPT ![idx + 1] = S_rpa]
    /\ pc' = "for"
    /\ UNCHANGED <<inputs, chi, locals, ret, search, tr_chi, t, idx, T, beta,
                   S_rpa, report>>
    /\ UNCHANGED others

NextSweep ==
    \/ ForNext
    \/ ForEnd
    \/ SetBeta
    \/ SetChi0
    \/ SetChi
    \/ SetS
    \/ Record

SpecSweep == InitSweep /\ [][NextSweep]_vars

----------------------------------------------------------------------------
(* The TPSC temperature sweep: for each T of a descending sequence,        *)
(* beta = 1/T, chi0 is generated for this beta, solve_tpsc is run on it,   *)
(* and the spin structure factor at (pi, pi) is recorded.  The notebooks   *)
(* leave this loop to the reader; it is written here as the design         *)
(* document describes it, around the solve_tpsc above: a step whose root   *)
(* search raises is reported for that step and the sweep goes on, and a    *)
(* solved step whose traces miss the sum rule is recorded as such.         *)

\* the temperatures of the sweep, in descending order
T_tpsc_vec == <<RInt(1), Half>>

\* the largest deviation from the sum rule that is not recorded
SumRuleTol == Rat(1, 2 * ChiDen)

\* the susceptibilities the bubble calculator may return at inverse
\* temperature bt: largest possible maximum, no weight away from zero
\* frequency
SweepChi0(bt) ==
    {g \in Chi0Inputs : /\ g.beta = bt
                        /\ g.data[PiPi0] = Real(Rat(MaxChi, ChiDen))
                        /\ g.data[<<0, 1>>] = CZero}

InitTpscSweep ==
    /\ U \in UBare
    /\ n \in Densities
    /\ pc = "next_T"
    /\ idx = -1 /\ T = Unset /\ beta = Unset
    /\ report = <<>>
    /\ chi0 = NoGf /\ chi = NoGf
    /\ Uc = Unset /\ Usp = Unset /\ docc = Unset /\ Uch = Unset
    /\ ret = Unset
    /\ bq = "idle" /\ args = Unset
    /\ xa = Unset /\ xb = Unset /\ fa = 0 /\ fb = 0
    /\ tr_chi = Unset
    /\ t = Unset /\ S_rpa = Unset /\ S_rpa_vec = Unset
    /\ NoOthers

\* the next temperature: beta = 1/T, chi0 generated for it, solve_tpsc
\* about to run its first statement
StepBegin ==
    /\ pc = "next_T"
    /\ idx + 1 < Len(T_tpsc_vec)
    /\ idx' = idx + 1
    /\ T' = T_tpsc_vec[idx + 2]
    /\ beta' = RDiv(RInt(1), T')
    /\ chi0' \in SweepChi0(beta')
    /\ pc' = "Uc"
    /\ UNCHANGED <<U, n, chi, locals, ret, search, tr_chi, t, S_rpa, S_rpa_vec,
                   report>>
    /\ UNCHANGED others

\* the state of solve_tpsc after its call is over
CallOver ==
    /\ Uc' = Unset /\ Usp' = Unset /\ docc' = Unset /\ Uch' = Unset
    /\ ret' = Unset
    /\ bq' = "idle" /\ args' = Unset
    /\ xa' = Unset /\ xb' = Unset /\ fa' = 0 /\ fb' = 0

\* trace(chi_sp) + trace(chi_ch) - (2n - n^2) for the pair a solve returned
SumRuleGap(usp, uch) ==
    RSub(RAdd(trace_chi(chi_sp(chi0, usp)), trace_chi(chi_ch(chi0, uch))),
         RSub(RMul(RInt(2), n), RMul(n, n)))

\* the traces miss the sum rule by more than the tolerance
SumRuleMissed(usp, uch) ==
    \/ RLess(SumRuleTol, SumRuleGap(usp, uch))
    \/ RLess(SumRuleGap(usp, uch), RNeg(SumRuleTol))

StepSolved_silent ==
    /\ pc = "done"
    /\ chi' = chi_sp(chi0, ret[1])
    /\ report' = Append(report, [T |-> T, status |-> "solved",
                                 S |-> SumAtPiPi(chi'),
                                 discrepancy |-> FALSE])
    /\ CallOver
    /\ pc' = "next_T"
    /\ UNCHANGED <<inputs, tr_chi, t, idx, T, beta, S_rpa, S_rpa_vec>>
    /\ UNCHANGED others

\* solve_tpsc has returned: the structure factor of chi_sp at (pi, pi) is
\* recorded for this T, with the sum-rule discrepancy if there is one
StepSolved ==
    /\ pc = "done"
    /\ chi' = chi_sp(chi0, ret[1])
    /\ report' = Append(report, [T |-> T, status |-> "solved",
                                 S |-> SumAtPiPi(chi'),
                                 discrepancy |-> SumRuleMissed(ret[1], ret[2])])
    /\ CallOver
    /\ pc' = "next_T"
    /\ UNCHANGED <<inputs, tr_chi, t, idx, T, beta, S_rpa, S_rpa_vec>>
    /\ UNCHANGED others

StepFailed_abort ==
    /\ pc = "raised"
    /\ CallOver
    /\ pc' = "aborted"
    /\ UNCHANGED <<inputs, chi, tr_chi, loop>>
    /\ UNCHANGED others

\* solve_tpsc has raised: the failure is reported for this T and the sweep
\* goes on
StepFailed ==
    /\ pc = "raised"
    /\ report' = Append(report, [T |-> T, status |-> "NoRootInInterval",
                                 S |-> NaN, discrepancy |-> FALSE])
    /\ CallOver
    /\ pc' = "next_T"
    /\ UNCHANGED <<inputs, chi, tr_chi, t, idx, T, beta, S_rpa, S_rpa_vec>>
    /\ UNCHANGED others

\* the sequence is exhausted
SweepEnd ==
    /\ pc = "next_T"
    /\ idx + 1 >= Len(T_tpsc_vec)
    /\ pc' = "swept"
    /\ UNCHANGED <<inputs, chi, locals, ret, search, tr_chi, loop>>
    /\ UNCHANGED others

NextTpscSweep ==
    \/ StepBegin
    \/ SetUc
    \/ BrentqCall
    \/ BrentqIterate
    \/ BrentqReturn
    \/ SetDocc
    \/ Return
    \/ StepSolved
    \/ StepFailed
    \/ SweepEnd

SpecTpscSweep == InitTpscSweep /\ [][NextTpscSweep]_vars

----------------------------------------------------------------------------
(* Reloading chi0 in notebook 04:                                          *)
(*     with HDFArchive("tpsc.h5", 'r') as R:                               *)
(*         chi0_qw = R['chi0_qw']                                          *)
(* run once per notebook session.  A session ends with the kernel: its     *)
(* variables are lost, the files stay.  HDFArchive is library code: mode   *)
(* 'r' opens an existing file for reading and fails if there is none, 'w'  *)
(* creates the file anew; an open archive is read by key; leaving the with *)
(* block closes it.                                                         *)

\* the number of notebook sessions a run goes through
MaxSessions == 2

\* a file that does not exist, and an archive file with the entries data
NoFile == [exists |-> FALSE, data |-> <<>>]

File(data) == [exists |-> TRUE, data |-> data]

\* what tpsc.h5 may hold before the first session: nothing (no such file),
\* a chi0 under 'chi0_qw', or a chi0 under another key only
Tpsc_h5 ==
    {NoFile}
        \cup {File([k \in {"chi0_qw"} |-> g]) : g \in Chi0Inputs}
        \cup {File([k \in {"chi0_kw"} |-> g]) :
                    g \in {g1 \in Chi0Inputs : g1.beta = RInt(1)}}

InitLoad ==
    /\ h5 \in [{"tpsc.h5"} -> Tpsc_h5]
    /\ fh = Unset
    /\ session = 1
    /\ pc = "with"
    /\ chi0 = NoGf /\ chi = NoGf
    /\ U = Unset /\ n = Unset
    /\ Uc = Unset /\ Usp = Unset /\ docc = Unset /\ Uch = Unset
    /\ ret = Unset
    /\ bq = "idle" /\ args = Unset
    /\ xa = Unset /\ xb = Unset /\ fa = 0 /\ fb = 0
    /\ tr_chi = Unset
    /\ NoLoop
    /\ NoVbdmft /\ NoLindhard

OpenArchive_w ==
    /\ pc = "with"
    /\ h5' = [h5 EXCEPT !["tpsc.h5"] = File(<<>>)]
    /\ fh' = [name |-> "tpsc.h5", mode |-> "w"]
    /\ pc' = "read"
    /\ UNCHANGED <<inputs, chi, locals, ret, search, tr_chi, loop, session>>
    /\ UNCHANGED <<vbdmft, lindhard>>

\* with HDFArchive("tpsc.h5", 'r') as R: the file exists
OpenArchive ==
    /\ pc = "with"
    /\ h5["tpsc.h5"].exists
    /\ fh' = [name |-> "tpsc.h5", mode |-> "r"]
    /\ pc' = "read"
    /\ UNCHANGED <<inputs, chi, locals, ret, search, tr_chi, loop, h5,
                   session>>
    /\ UNCHANGED <<vbdmft, lindhard>>

\* with HDFArchive("tpsc.h5", 'r') as R: there is no such file
OpenMissing ==
    /\ pc = "with"
    /\ ~h5["tpsc.h5"].exists
    /\ pc' = "OSError"
    /\ UNCHANGED <<inputs, chi, locals, ret, search, tr_chi, loop, store>>
    /\ UNCHANGED <<vbdmft, lindhard>>

\* chi0_qw = R['chi0_qw'], then the with block is left and R closed
ReadEntry ==
    /\ pc = "read"
    /\ "chi0_qw" \in DOMAIN h5[fh.name].data
    /\ chi0' = h5[fh.name].data["chi0_qw"]
    /\ fh' = Unset
    /\ pc' = "loaded"
    /\ UNCHANGED <<U, n, chi, locals, ret, search, tr_chi, loop, h5, session>>
    /\ UNCHANGED <<vbdmft, lindhard>>

\* R['chi0_qw'] on an archive without that key: the with block is left by
\* the KeyError and R closed
ReadKeyError ==
    /\ pc = "read"
    /\ "chi0_qw" \notin DOMAIN h5[fh.name].data
    /\ fh' = Unset
    /\ pc' = "KeyError"
    /\ UNCHANGED <<inputs, chi, locals, ret, search, tr_chi, loop, h5,
                   session>>
    /\ UNCHANGED <<vbdmft, lindhard>>

\* the kernel is restarted and the notebook run again from the top
NewSession ==
    /\ pc \in {"loaded", "KeyError", "OSError"}
    /\ session < MaxSessions
    /\ session' = session + 1
    /\ chi0' = NoGf
    /\ pc' = "with"
    /\ UNCHANGED <<U, n, chi, locals, ret, search, tr_chi, loop, h5, fh>>
    /\ UNCHANGED <<vbdmft, lindhard>>

NextLoad ==
    \/ OpenArchive
    \/ OpenMissing
    \/ ReadEntry
    \/ ReadKeyError
    \/ NewSession

SpecLoad == InitLoad /\ [][NextLoad]_vars

----------------------------------------------------------------------------
(* The VB-DMFT notebook.  First the cell that builds the site-basis        *)
(* operators from the even/odd ones:                                       *)
(*     for spin in ['up','down']:                                          *)
(*         cn['1-%s'%spin] = (c('even-%s'%spin,0) + c('odd-%s'%spin,0))    *)
(*                             / np.sqrt(2)                                *)
(*         cn['2-%s'%spin] = (c('even-%s'%spin,0) - c('odd-%s'%spin,0))    *)
(*                             / np.sqrt(2)                                *)
(*         nn['1-%s'%spin] = dagger(cn['1-%s'%spin]) * cn['1-%s'%spin]     *)
(*         nn['2-%s'%spin] = dagger(cn['2-%s'%spin]) * cn['2-%s'%spin]     *)
(* which computes the same on every process, then the DMFT loop, which      *)
(* every MPI process runs by itself; S.solve is collective (the solver      *)
(* reduces its measurements over all processes before it returns).         *)

\* the number of MPI processes of a run
NProcs == 2

Ranks == 0 .. (NProcs - 1)

is_master_node_any(p) == TRUE

\* mpi.is_master_node() on process p
is_master_node(p) == p = 0

\* n_loops = 10
n_loops == 10

\* the iteration the analysis cell reads: i = 9
AnalysisIndex == 9

\* for spin in ['up','down']
Spins == <<"up", "down">>

\* 'even-%s' % spin, '1-%s' % spin, ...: the text with the spin put in
Name(prefix, sp) == <<prefix, sp>>

\* the modes c(name, 0) the notebook uses
Modes == {Name(b, sp) : b \in {"even-", "odd-"}, sp \in {"up", "down"}}

\* c(name, 0): an operator linear in the annihilation operators, as the
\* coefficient of each mode (0: the mode does not occur)
c_op(name) == [mo \in Modes |-> IF mo = name THEN DblOne ELSE DblZero]

OpAdd(a, b) == [mo \in Modes |-> DblAdd(a[mo], b[mo])]

OpSub(a, b) == [mo \in Modes |-> DblAdd(a[mo], DblNeg(b[mo]))]

\* a / x for a number x
OpDiv(a, x) == [mo \in Modes |-> DblDiv(a[mo], x)]

\* dagger(a) * b, kept as its two factors
DaggerTimes(a, b) == [dagger |-> a, times |-> b]

RECURSIVE Digits(_)
\* '%i' % i: the decimal digits of i >= 0
Digits(i) == IF i < 10 THEN <<i>> ELSE Digits(i \div 10) \o <<i % 10>>

KeyOf_no_index(prefix, i) == <<prefix>>

\* 'G_iw-%i' % it, ...: the text with the number put in
KeyOf(prefix, i) == <<prefix>> \o Digits(i)

\* a value the solver of this run holds after its solve number k (-1: as
\* constructed), and a value stored by an earlier run of the notebook
Result(k) == [run |-> "this", solve |-> k]

Earlier(k) == [run |-> "earlier", solve |-> k]

\* the keys the loop writes in iteration k
Entries(k) == {KeyOf("G_iw-", k), KeyOf("Sigma_iw-", k), KeyOf("G0_iw-", k)}

\* what results.h5 may hold before the run: nothing (no such file), or the
\* entries of an earlier run of the same loop
Results_h5 ==
    {NoFile,
     File([key \in UNION {Entries(k) : k \in 0 .. (n_loops - 1)} |->
              Earlier(key[Len(key)])])}

InitDmft ==
    /\ h5 \in [{"results.h5"} -> Results_h5]
    /\ fh = [p \in Ranks |-> Unset]
    /\ session = 1
    /\ pc = "for spin"
    /\ spin = 0
    /\ cn = <<>> /\ nn = <<>>
    /\ ppc = [p \in Ranks |-> "S"]
    /\ it = [p \in Ranks |-> -1]
    /\ solver = [p \in Ranks |-> Unset]
    /\ chi0 = NoGf /\ chi = NoGf
    /\ U = Unset /\ n = Unset
    /\ Uc = Unset /\ Usp = Unset /\ docc = Unset /\ Uch = Unset
    /\ ret = Unset
    /\ bq = "idle" /\ args = Unset
    /\ xa = Unset /\ xb = Unset /\ fa = 0 /\ fb = 0
    /\ tr_chi = Unset
    /\ NoLoop /\ NoLindhard

\* what no statement of the VB-DMFT notebook touches
rest == <<inputs, chi, locals, ret, search, tr_chi, loop, session, lindhard>>

\* for spin in ['up','down']: the next spin
SpinNext ==
    /\ pc = "for spin"
    /\ spin < Len(Spins)
    /\ spin' = spin + 1
    /\ pc' = "cn 1"
    /\ UNCHANGED <<rest, h5, fh, cn, nn, ppc, it, solver>>

\* for spin in ['up','down']: both spins done; the DMFT cell comes next
SpinEnd ==
    /\ pc = "for spin"
    /\ spin = Len(Spins)
    /\ pc' = "dmft"
    /\ UNCHANGED <<rest, h5, fh, cn, nn, spin, ppc, it, solver>>

\* cn['1-%s'%spin] = (c('even-%s'%spin,0) + c('odd-%s'%spin,0)) / np.sqrt(2)
SetCn1 ==
    /\ pc = "cn 1"
    /\ cn' = (Name("1-", Spins[spin]) :>
                OpDiv(OpAdd(c_op(Name("even-", Spins[spin])),
                            c_op(Name("odd-", Spins[spin]))), Sqrt2)) @@ cn
    /\ pc' = "cn 2"
    /\ UNCHANGED <<rest, h5, fh, nn, spin, ppc, it, solver>>

SetCn2_plus ==
    /\ pc = "cn 2"
    /\ cn' = (Name("2-", Spins[spin]) :>
                OpDiv(OpAdd(c_op(Name("even-", Spins[spin])),
                            c_op(Name("odd-", Spins[spin]))), Sqrt2)) @@ cn
    /\ pc' = "nn 1"
    /\ UNCHANGED <<rest, h5, fh, nn, spin, ppc, it, solver>>

\* cn['2-%s'%spin] = (c('even-%s'%spin,0) - c('odd-%s'%spin,0)) / np.sqrt(2)
SetCn2 ==
    /\ pc = "cn 2"
    /\ cn' = (Name("2-", Spins[spin]) :>
                OpDiv(OpSub(c_op(Name("even-", Spins[spin])),
                            c_op(Name("odd-", Spins[spin]))), Sqrt2)) @@ cn
    /\ pc' = "nn 1"
    /\ UNCHANGED <<rest, h5, fh, nn, spin, ppc, it, solver>>

\* nn['1-%s'%spin] = dagger(cn['1-%s'%spin]) * cn['1-%s'%spin]
SetNn1 ==
    /\ pc = "nn 1"
    /\ nn' = (Name("1-", Spins[spin]) :>
                DaggerTimes(cn[Name("1-", Spins[spin])],
                            cn[Name("1-", Spins[spin])])) @@ nn
    /\ pc' = "nn 2"
    /\ UNCHANGED <<rest, h5, fh, cn, spin, ppc, it, solver>>

\* nn['2-%s'%spin] = dagger(cn['2-%s'%spin]) * cn['2-%s'%spin]
SetNn2 ==
    /\ pc = "nn 2"
    /\ nn' = (Name("2-", Spins[spin]) :>
                DaggerTimes(cn[Name("2-", Spins[spin])],
                            cn[Name("2-", Spins[spin])])) @@ nn
    /\ pc' = "for spin"
    /\ UNCHANGED <<rest, h5, fh, cn, spin, ppc, it, solver>>

\* process p moves on to the statement at
Goto(p, at) == ppc' = [ppc EXCEPT ![p] = at]

\* S = Solver(...); G = S.G0_iw.copy(); S.Sigma_iw << mu; n_loops = 10
Construct(p) ==
    /\ pc = "dmft"
    /\ ppc[p] = "S"
    /\ solver' = [solver EXCEPT ![p] =
                    [solves |-> 0, G_iw |-> Result(-1),
                     Sigma_iw |-> Result(-1), G0_iw |-> Result(-1)]]
    /\ Goto(p, "for")
    /\ UNCHANGED <<pc, rest, h5, fh, cn, nn, spin, it>>

\* for it in range(n_loops): the next iteration
LoopNext(p) ==
    /\ pc = "dmft"
    /\ ppc[p] = "for"
    /\ it[p] + 1 < n_loops
    /\ it' = [it EXCEPT ![p] = it[p] + 1]
    /\ Goto(p, "solve")
    /\ UNCHANGED <<pc, rest, h5, fh, cn, nn, spin, solver>>

\* for it in range(n_loops): the range is exhausted
LoopEnd(p) ==
    /\ pc = "dmft"
    /\ ppc[p] = "for"
    /\ it[p] + 1 >= n_loops
    /\ Goto(p, "end")
    /\ UNCHANGED <<pc, rest, h5, fh, cn, nn, spin, it, solver>>

\* S.solve(...) is entered: the process runs its Monte Carlo cycles
SolveEnter(p) ==
    /\ pc = "dmft"
    /\ ppc[p] = "solve"
    /\ Goto(p, "solving")
    /\ UNCHANGED <<pc, rest, h5, fh, cn, nn, spin, it, solver>>

\* S.solve(...) returns: every process has entered this solve, the
\* measurements are reduced and S.G_iw, S.Sigma_iw hold the new results
SolveLeave(p) ==
    /\ pc = "dmft"
    /\ ppc[p] = "solving"
    /\ \A q \in Ranks :
            \/ it[q] > it[p]
            \/ it[q] = it[p] /\ ppc[q] # "solve"
    /\ solver' = [solver EXCEPT ![p] =
                    [solves |-> solver[p].solves + 1,
                     G_iw |-> Result(it[p]),
                     Sigma_iw |-> Result(it[p]),
                     G0_iw |-> solver[p].G0_iw]]
    /\ Goto(p, "if")
    /\ UNCHANGED <<pc, rest, h5, fh, cn, nn, spin, it>>

\* if mpi.is_master_node(): taken
IfMaster(p) ==
    /\ pc = "dmft"
    /\ ppc[p] = "if"
    /\ is_master_node(p)
    /\ Goto(p, "with")
    /\ UNCHANGED <<pc, rest, h5, fh, cn, nn, spin, it, solver>>

\* if mpi.is_master_node(): not taken, the iteration is over
IfNotMaster(p) ==
    /\ pc = "dmft"
    /\ ppc[p] = "if"
    /\ ~is_master_node(p)
    /\ Goto(p, "for")
    /\ UNCHANGED <<pc, rest, h5, fh, cn, nn, spin, it, solver>>

\* with HDFArchive("results.h5") as A: the default mode 'a' opens the file
\* for reading and writing and creates it if there is none
OpenResults(p) ==
    /\ pc = "dmft"
    /\ ppc[p] = "with"
    /\ h5' = [h5 EXCEPT !["results.h5"] = IF @.exists THEN @ ELSE File(<<>>)]
    /\ fh' = [fh EXCEPT ![p] = [name |-> "results.h5", mode |-> "a"]]
    /\ Goto(p, "G_iw")
    /\ UNCHANGED <<pc, rest, cn, nn, spin, it, solver>>

\* A[key] = value through the handle of process p
Store(p, key, value) ==
    h5' = [h5 EXCEPT ![fh[p].name].data = (key :> value) @@ @]

\* A['G_iw-%i'%it] = S.G_iw
WriteG(p) ==
    /\ pc = "dmft"
    /\ ppc[p] = "G_iw"
    /\ Store(p, KeyOf("G_iw-", it[p]), solver[p].G_iw)
    /\ Goto(p, "Sigma_iw")
    /\ UNCHANGED <<pc, rest, fh, cn, nn, spin, it, solver>>

\* A['Sigma_iw-%i'%it] = S.Sigma_iw
WriteSigma(p) ==
    /\ pc = "dmft"
    /\ ppc[p] = "Sigma_iw"
    /\ Store(p, KeyOf("Sigma_iw-", it[p]), solver[p].Sigma_iw)
    /\ Goto(p, "G0_iw")
    /\ UNCHANGED <<pc, rest, fh, cn, nn, spin, it, solver>>

\* A['G0_iw-%i'%it] = S.G0_iw, then the with block is left and A closed
WriteG0(p) ==
    /\ pc = "dmft"
    /\ ppc[p] = "G0_iw"
    /\ Store(p, KeyOf("G0_iw-", it[p]), solver[p].G0_iw)
    /\ fh' = [fh EXCEPT ![p] = Unset]
    /\ Goto(p, "for")
    /\ UNCHANGED <<pc, rest, cn, nn, spin, it, solver>>

NextDmft ==
    \/ SpinNext
    \/ SpinEnd
    \/ SetCn1
    \/ SetCn2
    \/ SetNn1
    \/ SetNn2
    \/ \E p \in Ranks : Construct(p)
    \/ \E p \in Ranks : LoopNext(p)
    \/ \E p \in Ranks : LoopEnd(p)
    \/ \E p \in Ranks : SolveEnter(p)
    \/ \E p \in Ranks : SolveLeave(p)
    \/ \E p \in Ranks : IfMaster(p)
    \/ \E p \in Ranks : IfNotMaster(p)
    \/ \E p \in Ranks : OpenResults(p)
    \/ \E p \in Ranks : WriteG(p)
    \/ \E p \in Ranks : WriteSigma(p)
    \/ \E p \in Ranks : WriteG0(p)

SpecDmft == InitDmft /\ [][NextDmft]_vars

----------------------------------------------------------------------------
(* get_chi0(beta) and bubble(G0), statement by statement.  The meshes are   *)
(* those of the notebook with a smaller side: n_k points per direction and  *)
(* n_iw = N_IW Matsubara frequencies.  Momenta are kept in units of         *)
(* 2 pi / n_k, where the cosine is rational, and frequencies and their      *)
(* reciprocals in units of pi.  The two Fourier transforms are library      *)
(* code: of the first only the meshes of the result are known, its values   *)
(* are any of a family of functions; the second is kept as the pair         *)
(* (meshes, function it was applied to).                                    *)

HalfNK == 2

\* n_k: the number of k points per direction (32 in the notebook)
n_k == 2 * HalfNK

\* a mesh: its kind, its number of points and, for time and frequency
\* meshes, its inverse temperature and statistic
MeshOf(kind, size, bt, stat) ==
    [kind |-> kind, size |-> size, beta |-> bt, S |-> stat]

\* kmesh = MeshBrZone(BZ, n_k = n_k): n_k * n_k points, linear index
\* l = i * n_k + j for the point k = (2 pi i / n_k, 2 pi j / n_k, 0)
BZMesh == MeshOf("brzone", n_k * n_k, Unset, "none")

\* MeshImFreq(beta, S, n_iw): for fermions the 2 n_iw frequencies
\* i (2 w + 1) pi / beta, w = -n_iw .. n_iw - 1, in this order
MeshImFreq(bt, stat, niw) ==
    MeshOf("imfreq", IF stat = "Fermion" THEN 2 * niw ELSE 2 * niw - 1, bt, stat)

\* the indices (i, j) of the point of linear index l
Point(l) == <<l \div n_k, l % n_k>>

\* the linear index of the point (i, j), taken modulo the periods
Linear(v) == (v[1] % n_k) * n_k + (v[2] % n_k)

\* kmesh.values() and iwmesh.values(), in mesh order
Values(m) ==
    IF m.kind = "brzone" THEN [l \in 1 .. m.size |-> Point(l - 1)]
    ELSE [d \in 1 .. m.size |->
            Cx(RInt(0), RDiv(RInt(2 * (d - 1 - m.size \div 2) + 1), m.beta))]

\* a numpy array: its shape and its entries by 0-based index tuple
Array(shape, data) == [shape |-> shape, data |-> data]

\* np.array(list(...)) of a list of numbers or of momenta
ListArray(seq) ==
    Array(<<Len(seq)>>, [ix \in {<<i>> : i \in 0 .. (Len(seq) - 1)} |->
                            seq[ix[1] + 1]])

\* a[None, :] and a[:, None] of a one-dimensional array
NewAxisFirst(a) ==
    Array(<<1, a.shape[1]>>,
          [ix \in {0} \X (0 .. (a.shape[1] - 1)) |-> a.data[<<ix[2]>>]])

NewAxisLast(a) ==
    Array(<<a.shape[1], 1>>,
          [ix \in (0 .. (a.shape[1] - 1)) \X {0} |-> a.data[<<ix[1]>>]])

\* the operands' shapes cannot be broadcast together
ValueError == Array(<<-1, -1>>, <<>>)

\* numpy broadcasting of one axis: equal lengths, or one of them 1
BroadcastDim(m, k) ==
    IF m = k THEN m ELSE IF m = 1 THEN k ELSE IF k = 1 THEN m ELSE -1

\* the entry of a two-dimensional array a that lands on index ix
At(a, ix) ==
    a.data[<<IF a.shape[1] = 1 THEN 0 ELSE ix[1],
             IF a.shape[2] = 1 THEN 0 ELSE ix[2]>>]

\* cos of the angle 2 pi i / n_k, for n_k in {2, 4, 6}
Cos(i) ==
    LET twelfth == ((i % n_k) * (12 \div n_k)) % 12
    IN  CASE twelfth = 0 -> RInt(1)
          [] twelfth \in {2, 10} -> Rat(1, 2)
          [] twelfth \in {3, 9} -> RInt(0)
          [] twelfth \in {4, 8} -> Rat(-1, 2)
          [] twelfth = 6 -> RInt(-1)

\* eps = np.vectorize(lambda k: -2*t*(np.cos(k[0]) + np.cos(k[1])),
\* signature='(d)->()'): one number per momentum of the array
eps(hop, a) ==
    Array(a.shape,
          [ix \in DOMAIN a.data |->
              RMul(RMul(RInt(-2), hop),
                   RAdd(Cos(a.data[ix][1]), Cos(a.data[ix][2])))])

Subtract_reversed(a, b) ==
    LET rows == BroadcastDim(a.shape[1], b.shape[1])
        cols == BroadcastDim(a.shape[2], b.shape[2])
    IN  IF rows < 0 \/ cols < 0 THEN ValueError
        ELSE Array(<<rows, cols>>,
                   [ix \in (0 .. (rows - 1)) \X (0 .. (cols - 1)) |->
                       CSub(Real(At(b, ix)), At(a, ix))])

\* a - b of a complex array a and a real array b, with broadcasting
Subtract(a, b) ==
    LET rows == BroadcastDim(a.shape[1], b.shape[1])
        cols == BroadcastDim(a.shape[2], b.shape[2])
    IN  IF rows < 0 \/ cols < 0 THEN ValueError
        ELSE Array(<<rows, cols>>,
                   [ix \in (0 .. (rows - 1)) \X (0 .. (cols - 1)) |->
                       CSub(At(a, ix), Real(At(b, ix)))])

\* 1 / (x + i pi y) = (x - i pi y) / (x^2 + pi^2 y^2): the numerator and
\* the two rational parts of the denominator
PInv(z) ==
    [re |-> z[1], im |-> RNeg(z[2]),
     den |-> <<RMul(z[1], z[1]), RMul(z[2], z[2])>>]

\* 1.0 / a, entry by entry
Reciprocal(a) ==
    IF a = ValueError THEN ValueError
    ELSE Array(a.shape, [ix \in DOMAIN a.data |-> PInv(a.data[ix])])

\* Gf(mesh = MeshProduct(m1, m2), target_shape = []): all entries zero
NewGf(m1, m2) ==
    [mesh |-> <<m1, m2>>,
     data |-> [ix \in (0 .. (m1.size - 1)) \X (0 .. (m2.size - 1)) |-> CZero]]

\* inverse temperatures and hopping amplitudes get_chi0 is followed with
InitChi0 ==
    /\ beta \in Betas
    /\ t \in Hoppings
    /\ pc = "iwmesh"
    /\ chi0 = NoGf /\ chi = NoGf
    /\ U = Unset /\ n = Unset
    /\ Uc = Unset /\ Usp = Unset /\ docc = Unset /\ Uch = Unset
    /\ ret = Unset
    /\ bq = "idle" /\ args = Unset
    /\ xa = Unset /\ xb = Unset /\ fa = 0 /\ fb = 0
    /\ tr_chi = Unset
    /\ idx = Unset /\ T = Unset
    /\ S_rpa = Unset /\ S_rpa_vec = Unset /\ report = Unset
    /\ h5 = Unset /\ fh = Unset /\ session = Unset
    /\ NoVbdmft /\ NoLindhard

\* what no statement of get_chi0 or bubble touches
outside == <<U, n, chi, locals, ret, search, tr_chi, loop, store, vbdmft>>

\* iwmesh = MeshImFreq(beta=beta, S='Fermion', n_iw=n_iw)
SetIwmesh ==
    /\ pc = "iwmesh"
    /\ iwmesh' = MeshImFreq(beta, "Fermion", N_IW)
    /\ pc' = "iwarr"
    /\ UNCHANGED <<chi0, outside, iwarr, karr, G0, grt, mtb, chi0_rt, rt>>

\* iwarr = np.array(list(iwmesh.values()))
SetIwarr ==
    /\ pc = "iwarr"
    /\ iwarr' = ListArray(Values(iwmesh))
    /\ pc' = "karr"
    /\ UNCHANGED <<chi0, outside, iwmesh, karr, G0, grt, mtb, chi0_rt, rt>>

\* karr = np.array(list(kmesh.values()))
SetKarr ==
    /\ pc = "karr"
    /\ karr' = ListArray(Values(BZMesh))
    /\ pc' = "G0"
    /\ UNCHANGED <<chi0, outside, iwmesh, iwarr, G0, grt, mtb, chi0_rt, rt>>

\* G0 = Gf(mesh = MeshProduct(kmesh, iwmesh), target_shape = [])
SetG0 ==
    /\ pc = "G0"
    /\ G0' = NewGf(BZMesh, iwmesh)
    /\ pc' = "G0.data"
    /\ UNCHANGED <<chi0, outside, iwmesh, iwarr, karr, grt, mtb, chi0_rt, rt>>

\* G0.data[:,:] = 1.0 / (iwarr[None,:] - eps(karr)[:,None]); the value is
\* broadcast to the shape of G0.data, or the statement raises
FillG0 ==
    /\ pc = "G0.data"
    /\ LET value == Reciprocal(Subtract(NewAxisFirst(iwarr),
                                        NewAxisLast(eps(t, karr))))
           rows == G0.mesh[1].size
           cols == G0.mesh[2].size
       IN  IF /\ value # ValueError
              /\ BroadcastDim(value.shape[1], rows) = rows
              /\ BroadcastDim(value.shape[2], cols) = cols
           THEN /\ G0' = [G0 EXCEPT !.data = [ix \in DOMAIN G0.data |->
                                                 At(value, ix)]]
                /\ pc' = "bubble"
           ELSE /\ G0' = G0
                /\ pc' = "ValueError"
    /\ UNCHANGED <<chi0, outside, iwmesh, iwarr, karr, grt, mtb, chi0_rt, rt>>

\* the size of the imaginary-time mesh the library pairs with a frequency
\* mesh of n_iw positive frequencies, and back
TauSize(niw) == 6 * niw + 1

FreqSize(ntau) == (ntau - 1) \div 6

\* the values the first transform may have given g(r, tau): one function
\* per seed, with different values at different points
Seeds == {0, 1}

Sample(seed, g) ==
    [ix \in (0 .. (g.mesh[1].size - 1)) \X
            (0 .. (TauSize(g.mesh[2].size \div 2) - 1)) |->
        Cx(RInt(ix[1] + 1), RInt(ix[2] + seed))]

\* auto grt = make_gf_from_fourier<0,1>(G0): a function of (r, tau) on the
\* lattice of n_k * n_k points and a fermionic imaginary-time mesh
CallBubble ==
    /\ pc = "bubble"
    /\ \E seed \in Seeds :
          grt' = [mesh |-> <<MeshOf("cyclat", G0.mesh[1].size, Unset, "none"),
                             MeshOf("imtime", TauSize(G0.mesh[2].size \div 2),
                                    G0.mesh[2].beta, G0.mesh[2].S)>>,
                  data |-> Sample(seed, G0)]
    /\ pc' = "mtb"
    /\ UNCHANGED <<chi0, outside, iwmesh, iwarr, karr, G0, mtb, chi0_rt, rt>>

\* auto [mr, mt] = grt.mesh(); double beta = mt.domain().beta;
\* auto mtb = gf_mesh<imtime>{beta, Boson, mt.size()}
SetMtb ==
    /\ pc = "mtb"
    /\ mtb' = MeshOf("imtime", grt.mesh[2].size, grt.mesh[2].beta, "Boson")
    /\ pc' = "chi0"
    /\ UNCHANGED <<chi0, outside, iwmesh, iwarr, karr, G0, grt, chi0_rt, rt>>

\* auto chi0 = g_r_t_t{{mr, mtb}}, and the two loops at their first points
SetChi0Rt ==
    /\ pc = "chi0"
    /\ chi0_rt' = NewGf(grt.mesh[1], mtb)
    /\ rt' = <<0, 0>>
    /\ pc' = "fill"
    /\ UNCHANGED <<chi0, outside, iwmesh, iwarr, karr, G0, grt, mtb>>

\* the imaginary time of point j of a time mesh: j * beta / (size - 1)
Tau(m, j) == RMul(RInt(j), RDiv(m.beta, RInt(m.size - 1)))

Minus_same(v) == v

\* -r of a lattice point
Minus(v) == <<-v[1], -v[2]>>

\* g(r, tau) for a lattice vector and a time in [0, beta]: the lattice
\* vector is taken modulo the periods, the time is interpolated linearly
\* between the two mesh points around it
Evaluate(g, v, tau) ==
    LET m == g.mesh[2]
        x == RDiv(tau, RDiv(m.beta, RInt(m.size - 1)))
        i == IF Floor(x) >= m.size - 1 THEN m.size - 2 ELSE Floor(x)
        w == RSub(x, RInt(i))
        l == Linear(v)
    IN  CAdd(CScale(RSub(RInt(1), w), g.data[<<l, i>>]),
             CScale(w, g.data[<<l, i + 1>>]))

\* the point after (l, j) in  for r in mr: for t in mtb:
After(pos, m) ==
    IF pos[2] + 1 < m.size THEN <<pos[1], pos[2] + 1>> ELSE <<pos[1] + 1, 0>>

\* chi0[r, t] = 2*grt(-r, beta - t) * grt(r, t), for the next r and t
FillStep ==
    /\ pc = "fill"
    /\ rt[1] < grt.mesh[1].size
    /\ LET r == Point(rt[1])
           tau == Tau(mtb, rt[2])
       IN  chi0_rt' =
               [chi0_rt EXCEPT !.data[rt] =
                   CMul(CScale(RInt(2),
                               Evaluate(grt, Minus(r), RSub(mtb.beta, tau))),
                        Evaluate(grt, r, tau))]
    /\ rt' = After(rt, mtb)
    /\ UNCHANGED <<pc, chi0, outside, iwmesh, iwarr, karr, G0, grt, mtb>>

\* the loops are over
FillEnd ==
    /\ pc = "fill"
    /\ rt[1] >= grt.mesh[1].size
    /\ pc' = "return"
    /\ UNCHANGED <<chi0, outside, lindhard>>

\* make_gf_from_fourier<0,1> of a function of (r, tau): a function of
\* (k, i omega) with the statistic of the time mesh
Fourier(g) ==
    [mesh |-> <<MeshOf("brzone", g.mesh[1].size, Unset, "none"),
                MeshImFreq(g.mesh[2].beta, g.mesh[2].S,
                           FreqSize(g.mesh[2].size))>>,
     fourier |-> g]

\* return make_gf_from_fourier<0,1>(chi0), the value get_chi0 returns
ReturnBubble ==
    /\ pc = "return"
    /\ chi0' = Fourier(chi0_rt)
    /\ pc' = "done"
    /\ UNCHANGED <<outside, lindhard>>

NextChi0 ==
    \/ SetIwmesh
    \/ SetIwarr
    \/ SetKarr
    \/ SetG0
    \/ FillG0
    \/ CallBubble
    \/ SetMtb
    \/ SetChi0Rt
    \/ FillStep
    \/ FillEnd
    \/ ReturnBubble

SpecChi0 == InitChi0 /\ [][NextChi0]_vars

----------------------------------------------------------------------------
(* Properties of chi_rpa, stated for SpecRpa.                              *)

\* the denominator 1 - (cpl/2) z of the RPA formula at one mesh point
Denominator(z, cpl) == CSub(COne, CScale(RMul(Half, cpl), z))

\* v is z / (1 - (cpl/2) z): stated by cross-multiplication where the
\* denominator is not zero, and as a non-finite value where it is
IsRpaValue(v, z, cpl) ==
    IF Denominator(z, cpl) = CZero THEN ~CFinite(v)
    ELSE CFinite(v) /\ CMul(v, Denominator(z, cpl)) = z

\* h lives on the mesh of g and is g / (1 - (cpl/2) g) point by point
IsRpaOf(h, g, cpl) ==
    /\ DOMAIN h.data = DOMAIN g.data
    /\ h.beta = g.beta
    /\ \A p \in DOMAIN g.data : IsRpaValue(h.data[p], g.data[p], cpl)

\* C1: for every chi0, chi_rpa(chi0, 0) equals chi0 exactly at every mesh
\* point
C1_ZeroCouplingIdentity ==
    (pc = "chi_rpa" /\ U = RInt(0)) =>
        /\ DOMAIN chi.data = DOMAIN chi0.data
        /\ \A p \in DOMAIN chi0.data : chi.data[p] = chi0.data[p]

\* chi_rpa(chi0, 0) has returned for a chi0 with a non-zero imaginary part
C1_Witness ==
    /\ pc = "chi_rpa" /\ U = RInt(0)
    /\ chi = chi0
    /\ \E p \in Mesh : chi0.data[p][2] # RInt(0)

\* C2: chi_rpa(chi0, U) is defined on the mesh of chi0 and its value at each
\* mesh point is chi0 / (1 - (U/2) chi0) of that point alone; the spin
\* susceptibility is that of the coupling U_sp and the charge susceptibility
\* that of the coupling -U_ch
C2_PointwiseFormula ==
    /\ (pc = "chi_rpa") => IsRpaOf(chi, chi0, U)
    /\ (pc = "chi_sp") => IsRpaOf(chi, chi0, Usp)
    /\ (pc = "chi_ch") => IsRpaOf(chi, chi0, RNeg(Uch))

\* a charge susceptibility has returned, finite everywhere, for a non-zero
\* coupling and a chi0 that differs between mesh points
C2_Witness ==
    /\ pc = "chi_ch" /\ Uch # RInt(0)
    /\ chi0.data[PiPi0] # chi0.data[<<0, 1>>]
    /\ chi0.data[PiPi0] # CZero
    /\ \A p \in Mesh : CFinite(chi.data[p])
    /\ chi.data[PiPi0] # chi0.data[PiPi0]

----------------------------------------------------------------------------
(* Properties of solve_tpsc, stated for Spec.  The residuals are           *)
(* written out from the equations, not through Usp_root and Uch_root.      *)

\* n - 0.5 (x/U) n^2, the value the spin trace has at a root x
SpinTarget(x) == RSub(n, RMul(RDiv(RMul(Half, x), U), RMul(n, n)))

\* the sign of trace_chi(chi_rpa(chi0, x)) + 0.5 (x/U) n^2 - n
SpinDiff(x) == RCmp(trace_chi(chi_rpa(chi0, x)), SpinTarget(x))

\* 2 d + n - n^2, the value the charge trace has at a root
ChargeTarget(d) == RSub(RAdd(RMul(RInt(2), d), n), RMul(n, n))

\* the sign of trace_chi(chi_rpa(chi0, -y)) - 2 d - n + n^2
ChargeDiff(y, d) == RCmp(trace_chi(chi_rpa(chi0, RNeg(y))), ChargeTarget(d))

\* the sample points of the two brackets
SpinPoints ==
    {RInt(i) : i \in 0 .. Floor(RSub(Uc, RInt(EpsSteps)))}
        \cup {RSub(Uc, RInt(EpsSteps))}

ChargePoints == {RInt(i) : i \in 0 .. UchMax}

\* the points of S closer to r than the tolerance xtol
Near(r, S) ==
    {y \in S : /\ RLess(RSub(y, r), RInt(XTolSteps))
               /\ RLess(RSub(r, y), RInt(XTolSteps))}

\* the spin residual vanishes at r, or changes sign within xtol of r
SpinRootNear(r) ==
    \/ SpinDiff(r) = 0
    \/ \E y \in Near(r, SpinPoints) : SpinDiff(y) = -SpinDiff(r)

\* the charge residual for double occupancy d vanishes at r, or changes
\* sign within xtol of r
ChargeRootNear(r, d) ==
    \/ ChargeDiff(r, d) = 0
    \/ \E y \in Near(r, ChargePoints) : ChargeDiff(y, d) = -ChargeDiff(r, d)

\* C3: whenever solve_tpsc returns, the returned U_sp satisfies
\* trace_chi(chi_rpa(chi0, U_sp)) + 0.5 (U_sp/U) n^2 - n = 0 within the
\* tolerance of the root finder (the residual is zero at U_sp or changes sign
\* within xtol of it), and the value n - 0.5 (U_sp/U) n^2 the spin trace is
\* matched with is n - 2 docc of the returned docc
C3_SpinRootWithinTolerance ==
    (pc = "done") =>
        /\ SpinRootNear(ret[1])
        /\ SpinTarget(ret[1]) = RSub(n, RMul(RInt(2), ret[3]))

\* a call has returned a U_sp that is no exact zero of the residual
C3_Witness ==
    /\ pc = "done"
    /\ SpinDiff(ret[1]) # 0
    /\ \E y \in Near(ret[1], SpinPoints) : SpinDiff(y) = -SpinDiff(ret[1])

\* C4: whenever solve_tpsc returns, the returned U_ch lies in the bracket
\* from 0 to 100 and satisfies trace_chi(chi_rpa(chi0, -U_ch)) - 2 docc - n
\* + n^2 = 0 within tolerance, docc being the double occupancy returned by
\* the same call
C4_ChargeRootInBracket ==
    (pc = "done") =>
        /\ RLeq(RInt(0), ret[2]) /\ RLeq(ret[2], RInt(UchMax))
        /\ ChargeRootNear(ret[2], ret[3])

\* a call has returned a U_ch inside the bracket that is no exact zero of
\* the residual
C4_Witness ==
    /\ pc = "done"
    /\ RLess(RInt(0), ret[2]) /\ RLess(ret[2], RInt(UchMax))
    /\ ChargeDiff(ret[2], ret[3]) # 0
    /\ ret[3] # RInt(0)

\* C5: U_c is 2 / Re chi0(q = (pi, pi), zero frequency) of the chi0 of the
\* call, it is set before any root search is entered, and the fourth value
\* returned is that U_c
C5_StonerBound ==
    /\ (Uc # Unset) => RMul(Uc, chi0.data[PiPi0][1]) = RInt(2)
    /\ (args # Unset \/ bq # "idle") => Uc # Unset
    /\ (pc = "done") => (ret[4] = Uc /\ Uc # Unset)

\* a call has returned its U_c, searches done
C5_Witness ==
    /\ pc = "done"
    /\ Len(args) = 4
    /\ RMul(ret[4], chi0.data[PiPi0][1]) = RInt(2)

\* 0 <= x <= U_c - eps
InSpinBracket(x) ==
    RLeq(RInt(0), x) /\ RLeq(x, RSub(Uc, RInt(EpsSteps)))

\* C6: every value at which the U_sp search evaluates Usp_root (the ends of
\* its bracket, each of which is a point it evaluated, and the value it
\* returns) lies in 0 <= x <= U_c - eps, and the U_sp found is strictly below
\* U_c
C6_SpinSearchConfined ==
    /\ (Len(args) = 3) => (InSpinBracket(xa) /\ InSpinBracket(xb))
    /\ (Usp # Unset) => (InSpinBracket(Usp) /\ RLess(Usp, Uc))

\* the U_sp search has moved both ends of its bracket
C6_Witness ==
    /\ pc = "Usp" /\ bq = "loop"
    /\ xa # RInt(0) /\ xb # RSub(Uc, RInt(EpsSteps))
    /\ RLess(xa, xb)

\* C7: solve_tpsc sets U_c, then U_sp, then docc, then U_ch; docc is
\* 0.25 (U_sp/U) n^2 for the U_sp of the same call, and the U_ch search is
\* entered only after docc is set and is handed exactly that docc
C7_StepOrder ==
    /\ (Usp # Unset) => (Uc # Unset)
    /\ (docc # Unset) =>
          /\ Usp # Unset
          /\ RMul(RMul(RInt(4), docc), U) = RMul(Usp, RMul(n, n))
    /\ (Uch # Unset) => (docc # Unset)
    /\ (Len(args) = 4) => (docc # Unset /\ args[4] = docc)
    /\ (pc = "Usp") => (docc = Unset /\ Uch = Unset)
    /\ (pc \in {"docc", "Uch"}) => (Uch = Unset)

\* the U_ch search is running on a non-zero docc
C7_Witness ==
    /\ pc = "Uch" /\ bq = "loop"
    /\ args[4] = docc
    /\ docc # RInt(0)

\* C8: solve_tpsc returns exactly the four values U_sp, U_ch, docc, U_c of
\* the call, in that order
C8_ReturnTuple ==
    (pc = "done") =>
        /\ Len(ret) = 4
        /\ ret[1] = Usp /\ ret[2] = Uch /\ ret[3] = docc /\ ret[4] = Uc
        /\ \A i \in 1 .. 4 : ret[i] # Unset

\* a call has returned four different values
C8_Witness ==
    /\ pc = "done"
    /\ Cardinality({ret[i] : i \in 1 .. 4}) = 4

\* the grid couplings in 0 <= x < U_c
SpinGrid == 0 .. (Ceil(Uc) - 1)

\* trace_chi(chi_rpa(chi0, x)) is strictly increasing along the grid
TraceIncreasing ==
    \A i \in SpinGrid :
        (i + 1 \in SpinGrid) =>
            RLess(tr_chi_sp(chi0, RInt(i)), tr_chi_sp(chi0, RInt(i + 1)))

\* the sign of Usp_root at the grid coupling i
SpinSign(i) == Usp_root(RInt(i), chi0, n, U)

\* the cells i <= x < i + 1 of 0 <= x < U_c that hold a zero of Usp_root:
\* the residual is zero at i, or negative at i and positive at the next grid
\* point (towards U_c it grows without bound)
RootCells ==
    {i \in SpinGrid :
        \/ SpinSign(i) = 0
        \/ /\ SpinSign(i) < 0
           /\ \/ RLeq(Uc, RInt(i + 1))
              \/ SpinSign(i + 1) > 0}

\* the U_sp search is about to be entered, or has just returned or raised
SpinSearchAtEnds ==
    \/ pc = "Usp" /\ bq = "idle"
    \/ pc = "docc"
    \/ pc = "raised" /\ Len(args) = 3

SumRuleDefect(k) ==
    LET tr_sp == trace_chi(chi_rpa(chi0, ret[1]))
        tr_ch == trace_chi(chi_rpa(chi0, RNeg(ret[2])))
        rhs == RSub(RMul(RInt(2), n), RMul(n, n))
    IN  RCmp(tr_ch, RSub(RDiv(rhs, RInt(k)), tr_sp))

\* the defect has the sign of the sum of the two residuals left by the
\* searches: their common sign, or the sign of the one that is not zero
DefectFollowsResiduals(k) ==
    LET ssp == SpinDiff(ret[1])
        sch == ChargeDiff(ret[2], ret[3])
    IN  \/ ssp # 0 /\ sch = -ssp
        \/ SumRuleDefect(k) = Sgn(ssp + sch)

NoPole(x) ==
    \A p \in DOMAIN chi0.data : Denominator(chi0.data[p], x) # CZero

\* C11: during the U_sp bracket search, for every U of the bracket from 0 to
\* U_c - eps (every sample point of it, and in particular every end the
\* search moves to and the value it returns) and every mesh point, the
\* denominator 1 - (U/2) chi0(q, iw) is not zero
C11_NoPoleInSpinBracket ==
    /\ SpinSearchAtEnds => (\A x \in SpinPoints : NoPole(x))
    /\ (pc = "Usp" /\ bq = "loop") => (NoPole(xa) /\ NoPole(xb))
    /\ (Usp # Unset) => NoPole(Usp)

\* the U_sp search is running on a bracket whose ends it has both moved,
\* over a chi0 that is not zero away from (pi, pi)
C11_Witness ==
    /\ pc = "Usp" /\ bq = "loop"
    /\ xa # RInt(0) /\ xb # RSub(Uc, RInt(EpsSteps))
    /\ chi0.data[<<0, 0>>] # CZero
    /\ NoPole(xa) /\ NoPole(xb)

\* the residuals, written out from the equations, have one sign at both
\* ends of the bracket
SpinEndsSameSign ==
    SpinDiff(RInt(0)) * SpinDiff(RSub(Uc, RInt(EpsSteps))) > 0

ChargeEndsSameSign ==
    ChargeDiff(RInt(0), docc) * ChargeDiff(RInt(UchMax), docc) > 0

\* C12: when the residual has the same sign at both ends of its bracket, for
\* U_sp or for U_ch, solve_tpsc returns no values: the search raises, the
\* error leaves solve_tpsc (nothing in it catches it) and no return value is
\* ever produced
C12_NoRootRaises ==
    /\ [](pc = "raised" => ret = Unset)
    /\ [][/\ (pc = "Usp" /\ bq = "idle" /\ SpinEndsSameSign) =>
                (pc' = "raised" /\ Usp' = Unset /\ ret' = Unset)
          /\ (pc = "Uch" /\ bq = "idle" /\ ChargeEndsSameSign) =>
                (pc' = "raised" /\ Uch' = Unset /\ ret' = Unset)
          /\ (pc = "raised") => (pc' = "raised")]_vars

\* the U_ch search has raised after a U_sp was found
C12_Witness ==
    /\ pc = "raised"
    /\ Len(args) = 4
    /\ Usp # Unset /\ Uch = Unset /\ ret = Unset
    /\ fa = fb /\ fa # 0

\* the sign of the spin residual at x when the bare coupling is U_c itself:
\* trace_chi(chi_rpa(chi0, x)) + 0.5 (x/U_c) n^2 - n, the limit of the
\* residual as U goes to U_c
LimitDiff(x) ==
    RCmp(trace_chi(chi_rpa(chi0, x)),
         RSub(n, RMul(RDiv(RMul(Half, x), Uc), RMul(n, n))))

\* C19, as stated: as U goes to U_c from below the solved U_sp goes to U_c,
\* i.e. in the limit U = U_c the spin residual is still negative at every
\* coupling below U_c (its root has moved up to U_c); and for every U the
\* solved U_sp is strictly below U_c
C19_ApproachesStoner ==
    /\ SpinSearchAtEnds => (\A x \in SpinPoints : LimitDiff(x) < 0)
    /\ (Usp # Unset) => RLess(Usp, Uc)

\* the points of the U_sp bracket at or below r and closer to it than xtol
JustBelow(r) == {y \in Near(r, SpinPoints) : RLeq(y, r)}

\* C19, amended: for every U the solved U_sp is strictly below U_c, and it
\* does not go to U_c with U: within the tolerance of the search it is at or
\* below the coupling at which the spin trace reaches n, the ansatz term
\* 0.5 (U_sp/U) n^2 being non-negative for every U
C19_BelowStonerAndSaturation ==
    (Usp # Unset) =>
        /\ RLess(Usp, Uc)
        /\ \E y \in JustBelow(Usp) : RLeq(trace_chi(chi_rpa(chi0, y)), n)

\* a U_sp was found for a bare U at or above U_c that is further below U_c
\* than the tolerance, at a coupling where the spin trace with U = U_c has
\* already passed its target
C19_Witness ==
    /\ pc = "docc"
    /\ RLeq(Uc, U)
    /\ RLeq(Usp, RSub(Uc, RInt(XTolSteps + EpsSteps)))
    /\ LimitDiff(Usp) >= 0

----------------------------------------------------------------------------
(* Division by zero in solve_tpsc, stated for SpecZero.                    *)

\* the real part of chi0 at (pi, pi), zero frequency
Peak == chi0.data[PiPi0][1]

\* a scalar the call divides by is zero
ZeroDivisor == U = RInt(0) \/ Peak = RInt(0)

\* no mesh point has a zero denominator 1 + (x/2) chi0(q, iw)
NoChargePole(x) ==
    \A p \in DOMAIN chi0.data : Denominator(chi0.data[p], RNeg(x)) # CZero

\* C30: solve_tpsc never divides by zero when U > 0 and Re chi0(pi,pi,0) > 0;
\* with U = 0 or Re chi0(pi,pi,0) = 0 the call fails with a division-by-zero
\* error before any value is returned, rather than returning U_sp = 0
C30_DivisionByZero ==
    /\ [](/\ (pc = "ZeroDivisionError") => ZeroDivisor
          /\ ZeroDivisor =>
                /\ pc \in {"Uc", "Usp", "ZeroDivisionError"}
                /\ Usp = Unset /\ docc = Unset /\ Uch = Unset /\ ret = Unset
                /\ bq = "idle"
          /\ (Peak = RInt(0)) => (Uc = Unset)
          /\ ~ZeroDivisor =>
                /\ RLess(RInt(0), U) /\ RLess(RInt(0), Peak)
                /\ (Uc # Unset) => IsFinite(Uc)
                /\ (docc # Unset) => IsFinite(docc)
                /\ (bq = "loop" /\ pc = "Usp") => (NoPole(xa) /\ NoPole(xb))
                /\ (bq = "loop" /\ pc = "Uch") =>
                        (NoChargePole(xa) /\ NoChargePole(xb)))
    /\ [][/\ (pc = "Uc" /\ Peak = RInt(0)) => (pc' = "ZeroDivisionError")
          /\ (pc = "Usp" /\ U = RInt(0)) => (pc' = "ZeroDivisionError")
          /\ (pc = "ZeroDivisionError") => (pc' = pc)]_vars

\* a call with U = 0 on a chi0 with a positive peak has failed inside the
\* U_sp search, after Uc was computed
C30_Witness ==
    /\ pc = "ZeroDivisionError"
    /\ U = RInt(0)
    /\ RLess(RInt(0), Peak)
    /\ Uc = RDiv(RInt(2), Peak)
    /\ ret = Unset

----------------------------------------------------------------------------
(* Error handling of chi_rpa, stated for SpecRpa.                          *)

\* C14: chi_rpa reports a zero denominator 1 - (U/2) chi0(q, iw) instead of
\* returning: a susceptibility it has returned is finite at every mesh
\* point, and no non-finite value reaches the trace computed from it
C14_SingularDenominatorReported ==
    /\ (pc \in {"chi_rpa", "chi_sp", "chi_ch"}) =>
            (\A p \in DOMAIN chi.data : CFinite(chi.data[p]))
    /\ (pc = "trace_chi") => IsFinite(tr_chi)

----------------------------------------------------------------------------
(* The trace of a susceptibility, stated for SpecRpa.                      *)

RECURSIVE ReSum(_, _)
\* the sum of the real parts of data over the points S
ReSum(data, S) ==
    IF S = {} THEN RInt(0)
    ELSE LET p == CHOOSE q \in S : TRUE
         IN  RAdd(data[p][1], ReSum(data, S \ {p}))

----------------------------------------------------------------------------
(* Properties of the temperature loop, stated for SpecSweep.               *)

\* the loop is inside the body of an iteration
InStep == pc \in {"beta", "chi0_qw", "chi", "S_rpa", "S_rpa_vec"}

\* the number of temperatures whose value has been stored
Stored == IF InStep THEN idx ELSE idx + 1

\* C16: the loop takes the temperatures one at a time in strictly descending
\* order; in each iteration beta = 1/T, chi0 is generated anew for this beta
\* before the susceptibility of the iteration is computed from it, and
\* exactly one structure factor is stored for the T of the iteration (entry
\* idx, written once); when the loop ends every temperature has been taken
C16_SweepOrder ==
    /\ [](/\ InStep => (T = T_rpa_vec[idx + 1])
          /\ (pc \in {"chi0_qw", "chi", "S_rpa", "S_rpa_vec"}) =>
                (RMul(beta, T) = RInt(1))
          /\ (pc \in {"chi", "S_rpa", "S_rpa_vec"}) =>
                (chi0.beta = beta /\ DOMAIN chi0.data = Mesh)
          /\ (pc \in {"S_rpa", "S_rpa_vec"}) =>
                (chi.beta = beta /\ IsRpaOf(chi, chi0, U))
          /\ (pc = "S_rpa_vec") => (S_rpa = SumAtPiPi(chi))
          /\ (pc = "end") => (idx + 1 = Len(T_rpa_vec)))
    /\ [][/\ (T' # T /\ T # Unset) => RLess(T', T)
          /\ (T' # T) => (idx' = idx + 1 /\ pc = "for")
          /\ (idx' # idx) => (T' = T_rpa_vec[idx' + 1])
          /\ (beta' # beta) => (pc = "beta")
          /\ (chi0' # chi0) => (pc = "chi0_qw")
          /\ (S_rpa_vec' # S_rpa_vec) =>
                /\ pc = "S_rpa_vec"
                /\ \A i \in DOMAIN S_rpa_vec :
                      S_rpa_vec'[i] = (IF i = idx + 1 THEN S_rpa ELSE S_rpa_vec[i])
          /\ (pc = "S_rpa_vec") => (pc' = "for" /\ S_rpa_vec'[idx + 1] = S_rpa)]_vars

\* the loop has ended with a structure factor stored for every temperature
C16_Witness ==
    /\ pc = "end"
    /\ Len(S_rpa_vec) = Len(T_rpa_vec)
    /\ \A i \in DOMAIN S_rpa_vec : S_rpa_vec[i] # RInt(0)
    /\ \A i \in DOMAIN S_rpa_vec, j \in DOMAIN S_rpa_vec :
            (i # j) => (S_rpa_vec[i] # S_rpa_vec[j])

\* the RPA critical temperature the notebook states for U = 4, t = 1
T_c_rpa == Rat(3, 4)

\* C17: every temperature the RPA loop evaluates is strictly greater than
\* T_c^(RPA) ~ 0.75 and strictly positive, so beta = 1/T is finite (and
\* positive) at every step and no step runs at or below the transition
C17_AboveTransition ==
    /\ \A i \in DOMAIN T_rpa_vec :
            RLess(T_c_rpa, T_rpa_vec[i]) /\ RLess(RInt(0), T_rpa_vec[i])
    /\ (T # Unset) => (RLess(T_c_rpa, T) /\ RLess(RInt(0), T))
    /\ (beta # Unset) => (IsFinite(beta) /\ RLess(RInt(0), beta))

\* the last and lowest temperature, 0.8, has been evaluated
C17_Witness ==
    /\ pc = "S_rpa_vec"
    /\ T = Rat(4, 5)
    /\ idx + 1 = Len(T_rpa_vec)
    /\ beta = Rat(5, 4)
    /\ IsFinite(S_rpa)

\* the structure factor of one temperature, computed from that temperature
\* and the fixed parameters U and t alone
StepValue(temp) ==
    SumAtPiPi(chi_rpa(get_chi0(RDiv(RInt(1), temp), t), U))

\* C18: the value stored for a temperature depends only on that temperature
\* and the fixed parameters, not on the temperatures taken before it: it is
\* the value a computation for that temperature alone gives, so sweeps over
\* different sequences store the same value for a temperature they share
C18_StepsIndependent ==
    /\ \A i \in 1 .. Stored : S_rpa_vec[i] = StepValue(T_rpa_vec[i])
    /\ (pc = "S_rpa_vec") => (S_rpa = StepValue(T))
    /\ \A i \in (Stored + 1) .. Len(S_rpa_vec) : S_rpa_vec[i] = RInt(0)

\* several temperatures have been stored, with different values
C18_Witness ==
    /\ pc = "for"
    /\ idx >= 2
    /\ S_rpa_vec[1] # S_rpa_vec[2] /\ S_rpa_vec[2] # S_rpa_vec[3]
    /\ S_rpa_vec[3] = StepValue(T_rpa_vec[3])

\* the entries of S_rpa_vec a step changes
Written == {i \in DOMAIN S_rpa_vec : S_rpa_vec'[i] # S_rpa_vec[i]}

\* C25: the spin structure factor recorded at each sweep step is
\* S(q) = T * sum over n of chi(q, i omega_n) at q = (pi, pi): the frequency
\* sum of chi at momentum index (n_k/2, n_k/2, 0) multiplied by the step's
\* temperature T
C25_StructureFactorTimesT ==
    /\ (pc = "S_rpa_vec") => (S_rpa = RMul(T, SumAtPiPi(chi)))
    /\ \A i \in 1 .. Stored :
            S_rpa_vec[i] =
                RMul(T_rpa_vec[i],
                     SumAtPiPi(chi_rpa(get_chi0(RDiv(RInt(1), T_rpa_vec[i]), t),
                                       U)))

\* C27: each iteration idx of the RPA loop writes exactly one entry,
\* S_rpa_vec[idx], and leaves every other entry of S_rpa_vec (and the
\* sequence T_rpa_vec, which no statement of the loop assigns) unchanged;
\* the entry it writes had not been written before, and when the loop ends
\* every entry of S_rpa_vec has been written, at the index of its temperature
C27_OneEntryPerStep ==
    /\ [](/\ Len(S_rpa_vec) = Len(T_rpa_vec)
          /\ \A i \in DOMAIN S_rpa_vec :
                (S_rpa_vec[i] # RInt(0)) <=> (i <= Stored)
          /\ (pc = "end") => (Stored = Len(T_rpa_vec)))
    /\ [][/\ (pc = "S_rpa_vec") =>
                /\ Written = {idx + 1}
                /\ T = T_rpa_vec[idx + 1]
                /\ S_rpa_vec[idx + 1] = RInt(0)
          /\ (pc # "S_rpa_vec") => (Written = {})
          /\ (pc' = "end") => (\A i \in DOMAIN S_rpa_vec' :
                                    S_rpa_vec'[i] # RInt(0))]_vars

\* the loop has ended: the second entry was written in the second step and
\* kept since, next to the entries of the other steps
C27_Witness ==
    /\ pc = "end"
    /\ idx + 1 = Len(S_rpa_vec)
    /\ S_rpa_vec[2] = StepValue(T_rpa_vec[2])
    /\ S_rpa_vec[1] # RInt(0) /\ S_rpa_vec[Len(S_rpa_vec)] # RInt(0)

----------------------------------------------------------------------------
(* Properties of the TPSC temperature sweep, stated for SpecTpscSweep.     *)

\* the record of a failed step at temperature temp
FailureRecord(temp) ==
    [T |-> temp, status |-> "NoRootInInterval", S |-> NaN, discrepancy |-> FALSE]

\* the report has one record for each temperature of the sequence, in order
ReportComplete ==
    /\ Len(report) = Len(T_tpsc_vec)
    /\ \A i \in DOMAIN report : report[i].T = T_tpsc_vec[i]

\* the step the sweep takes from the head of its loop while temperatures
\* remain is the step into the next temperature
GoesOn ==
    (pc = "next_T" /\ idx + 1 < Len(T_tpsc_vec)) =>
        (idx' = idx + 1 /\ T' = T_tpsc_vec[idx' + 1] /\ pc' = "Uc")

\* C13: a step of the sweep whose root search fails is reported for that
\* step only (one record, for its temperature, and the records of the other
\* steps are untouched), and the failure does not abort the sweep: the step
\* taken after it leads back to the head of the loop, from where the sweep
\* goes into every remaining temperature, and a sweep that has ended has a
\* record for every temperature
C13_FailedStepReported ==
    /\ [][/\ (pc = "raised") =>
                (report' = Append(report, FailureRecord(T)) /\ pc' = "next_T"
                    /\ idx' = idx)
          /\ GoesOn]_vars
    /\ [](pc = "swept" => ReportComplete)
    /\ [](pc \in {"next_T", "swept", "Uc", "Usp", "docc", "Uch", "return",
                   "done", "raised"})

\* the sweep has ended after its first step failed and its second was solved
C13_Witness ==
    /\ pc = "swept"
    /\ Len(report) = 2
    /\ report[1].status = "NoRootInInterval"
    /\ report[2].status = "solved" /\ IsFinite(report[2].S)

----------------------------------------------------------------------------
(* Reloading chi0 from the archive, stated for SpecLoad.                   *)

\* C21: loading the stored susceptibility opens the archive tpsc.h5
\* read-only and reads the single entry under key 'chi0_qw'; the load never
\* writes to the archive, so the archive contents are unchanged and every
\* later session reads the same chi0
C21_LoadReadsOnly ==
    /\ [](/\ (fh # Unset) => (fh.name = "tpsc.h5" /\ fh.mode = "r")
          /\ (pc = "loaded") => (chi0 = h5["tpsc.h5"].data["chi0_qw"])
          /\ (pc # "loaded") => (chi0 = NoGf)
          /\ DOMAIN h5 = {"tpsc.h5"})
    /\ [][/\ h5' = h5
          /\ (chi0' # chi0 /\ chi0' # NoGf) =>
                /\ fh # Unset /\ fh.mode = "r"
                /\ chi0' = h5["tpsc.h5"].data["chi0_qw"]
          /\ (session' # session /\ pc = "loaded") =>
                (h5'["tpsc.h5"].data["chi0_qw"] = chi0)]_vars

\* a second session has loaded chi0 from the archive
C21_Witness ==
    /\ session = 2
    /\ pc = "loaded"
    /\ chi0 # NoGf
    /\ chi0.data[PiPi0] = Real(Rat(MaxChi, ChiDen))
    /\ fh = Unset

----------------------------------------------------------------------------
(* Properties of the VB-DMFT notebook, stated for SpecDmft.                *)

\* the entries of results.h5
Archive == h5["results.h5"].data

\* process p has left the solve of its current iteration
Solved(p) == ppc[p] \in {"if", "with", "G_iw", "Sigma_iw", "G0_iw", "for", "end"}

\* the iterations whose three entries the master has written in this run
Written9 == 0 .. (IF ppc[0] \in {"for", "end"} THEN it[0] ELSE it[0] - 1)

\* C28: after the DMFT loop of n_loops = 10 iterations completes, the
\* results archive holds G_iw-k, Sigma_iw-k and G0_iw-k for every k in 0..9,
\* each written after the solver run of iteration k finished and never
\* overwritten by a later iteration; the index 9 the analysis cell reads is
\* the last iteration the loop writes
C28_ArchiveComplete ==
    /\ [](/\ \A k \in Written9 :
                /\ Entries(k) \subseteq DOMAIN Archive
                /\ Archive[KeyOf("G_iw-", k)] = Result(k)
                /\ Archive[KeyOf("Sigma_iw-", k)] = Result(k)
                /\ Archive[KeyOf("G0_iw-", k)].run = "this"
          /\ (ppc[0] = "end") =>
                /\ Written9 = 0 .. (n_loops - 1)
                /\ it[0] = AnalysisIndex
                /\ Archive[KeyOf("G_iw-", AnalysisIndex)] = Result(n_loops - 1))
    /\ [][/\ \A key \in DOMAIN Archive :
                (Archive[key].run = "this") =>
                    (key \in DOMAIN Archive' /\ Archive'[key] = Archive[key])
          /\ (Archive' # Archive) =>
                /\ solver[0].solves = it[0] + 1
                /\ \E key \in Entries(it[0]) :
                        /\ DOMAIN Archive' = DOMAIN Archive \cup {key}
                        /\ Archive'[key].run = "this"
                        /\ \A k2 \in DOMAIN Archive \ {key} :
                                Archive'[k2] = Archive[k2]]_vars

\* the loop has ended on an archive that held the entries of an earlier run
C28_Witness ==
    /\ \A p \in Ranks : ppc[p] = "end"
    /\ Cardinality(DOMAIN Archive) = 3 * n_loops
    /\ \A key \in DOMAIN Archive : Archive[key].run = "this"
    /\ Archive[KeyOf("Sigma_iw-", 0)] = Result(0)
    /\ Archive[KeyOf("Sigma_iw-", 9)] = Result(9)

\* C29: when the DMFT loop runs on several MPI processes, every process
\* runs the solver in every iteration, but only the master node ever opens
\* or writes results.h5, and no two processes write the archive
\* concurrently
C29_MasterOnlyWrites ==
    /\ [](/\ \A p \in Ranks :
                /\ (p # 0) => (fh[p] = Unset)
                /\ (p # 0) => (ppc[p] \notin {"with", "G_iw", "Sigma_iw", "G0_iw"})
                /\ (solver[p] # Unset) =>
                        (solver[p].solves = IF Solved(p) THEN it[p] + 1 ELSE it[p])
                /\ (ppc[p] = "end") => (solver[p].solves = n_loops)
          /\ Cardinality({p \in Ranks : fh[p] # Unset}) <= 1)
    /\ [][(h5' # h5 \/ fh' # fh) =>
                /\ ppc'[0] # ppc[0]
                /\ \A p \in Ranks \ {0} : ppc'[p] = ppc[p] /\ fh'[p] = fh[p]]_vars

\* another process has finished all its solver runs while the master has
\* the archive open for the last iteration
C29_Witness ==
    /\ NProcs > 1
    /\ ppc[1] = "end" /\ solver[1].solves = n_loops
    /\ fh[0] # Unset /\ ppc[0] = "Sigma_iw" /\ it[0] = n_loops - 1

\* x <= y for positive doubles
DblLeq(x, y) ==
    \/ x.e < y.e
    \/ x.e = y.e /\ LGe(y.m, x.m)

\* the coefficient 1/sqrt(2) of the site-basis operators
InvSqrt2 == DblDiv(DblOne, Sqrt2)

\* both site operators of spin sp have been built
Built(sp) == {Name("1-", sp), Name("2-", sp)} \subseteq DOMAIN cn

\* c_+ and c_- of spin sp from the definition c_(+/-) = (c_1 +/- c_2)/sqrt(2),
\* with the site operators the notebook built put in for c_1 and c_2
BackEven(sp) == OpDiv(OpAdd(cn[Name("1-", sp)], cn[Name("2-", sp)]), Sqrt2)

BackOdd(sp) == OpDiv(OpSub(cn[Name("1-", sp)], cn[Name("2-", sp)]), Sqrt2)

\* a is the operator c(name, 0) up to rounding: no other mode occurs, and
\* the coefficient of the mode is 1 to within two units in the last place
NearlyMode(a, name) ==
    \A mo \in Modes :
        IF mo = name
        THEN /\ a[mo].sign = 1
             /\ DblLeq(a[mo], DblOne)
             /\ DblLeq(Dbl(1, Limb \div 2 - 1, Limb - 2, -MantBits), a[mo])
        ELSE a[mo] = DblZero

\* C26 as stated: the site-basis operators invert the even/odd definition,
\* c_1 = (c_even + c_odd)/sqrt(2) and c_2 = (c_even - c_odd)/sqrt(2) for each
\* spin, and substituting them back into the definition returns c_even and
\* c_odd exactly
C26_RoundTripExact ==
    \A sp \in {"up", "down"} :
        Built(sp) =>
            /\ BackEven(sp) = c_op(Name("even-", sp))
            /\ BackOdd(sp) = c_op(Name("odd-", sp))

\* C26, amended: c_1 and c_2 are (c_even +/- c_odd) with both coefficients
\* the double 1/sqrt(2), and substituting them back returns c_even and c_odd
\* up to floating-point rounding: no other mode occurs, and the coefficient
\* is within two units in the last place of 1 and not greater than 1
C26_RoundTripRounded ==
    \A sp \in {"up", "down"} :
        /\ (Name("1-", sp) \in DOMAIN cn) =>
                (cn[Name("1-", sp)] =
                    [mo \in Modes |->
                        IF mo \in {Name("even-", sp), Name("odd-", sp)}
                        THEN InvSqrt2 ELSE DblZero])
        /\ (Name("2-", sp) \in DOMAIN cn) =>
                (cn[Name("2-", sp)] =
                    [mo \in Modes |->
                        IF mo = Name("even-", sp) THEN InvSqrt2
                        ELSE IF mo = Name("odd-", sp) THEN DblNeg(InvSqrt2)
                        ELSE DblZero])
        /\ Built(sp) =>
                /\ NearlyMode(BackEven(sp), Name("even-", sp))
                /\ NearlyMode(BackOdd(sp), Name("odd-", sp))

\* the operators of both spins have been built, and putting them back gives
\* a coefficient that is not 1
C26_Witness ==
    /\ pc = "dmft"
    /\ Built("up") /\ Built("down")
    /\ BackEven("down")[Name("even-", "down")] # DblOne
    /\ BackOdd("up")[Name("odd-", "up")] =
            Dbl(1, Limb \div 2 - 1, Limb - 1, -MantBits)


----------------------------------------------------------------------------
(* Properties of get_chi0 and bubble, stated for SpecChi0.                 *)

\* the statement G0.data[:,:] = ... has run
G0Filled == pc \in {"bubble", "mtb", "chi0", "fill", "return", "done"}

\* C24: get_chi0(beta) fills G0 so that for every momentum index k and every
\* fermionic frequency index w, G0.data[k, w] = 1 / (i omega_w - eps(k)) with
\* eps(k) = -2t(cos kx + cos ky); the first data axis is momentum and the
\* second is frequency, as in MeshProduct(kmesh, iwmesh); the assignment
\* does not raise
C24_FreeGreensFunction ==
    /\ pc # "ValueError"
    /\ G0Filled =>
        /\ G0.mesh = <<BZMesh, MeshImFreq(beta, "Fermion", N_IW)>>
        /\ DOMAIN G0.data =
               (0 .. (n_k * n_k - 1)) \X (0 .. (2 * N_IW - 1))
        /\ \A i \in 0 .. (n_k - 1), j \in 0 .. (n_k - 1),
              w \in (-N_IW) .. (N_IW - 1) :
              LET e == RMul(RMul(RInt(-2), t), RAdd(Cos(i), Cos(j)))
                  omega == RDiv(RInt(2 * w + 1), beta)
                  value == G0.data[<<i * n_k + j, w + N_IW>>]
              IN  /\ value.re = RNeg(e)
                  /\ value.im = RNeg(omega)
                  /\ value.den = <<RMul(e, e), RMul(omega, omega)>>

\* G0 has been filled, two momenta have different entries at one frequency
\* and two frequencies different entries at one momentum
C24_Witness ==
    /\ pc = "bubble"
    /\ G0.data[<<0, 0>>] # G0.data[<<1, 0>>]
    /\ G0.data[<<0, 0>>] # G0.data[<<0, 1>>]
    /\ G0.data[<<1, 0>>].re # RInt(0)

\* the linear index of -r for the lattice point of linear index l
NegIndex(l) ==
    ((n_k - (l \div n_k)) % n_k) * n_k + ((n_k - (l % n_k)) % n_k)

\* the loops of bubble have passed the point (l, j)
Filled(l, j) ==
    \/ pc \in {"return", "done"}
    \/ pc = "fill" /\ (l < rt[1] \/ (l = rt[1] /\ j < rt[2]))

\* C23: bubble(G0) fills chi0(r, tau) = 2 * G0(-r, beta - tau) * G0(r, tau)
\* for every real-space point r and every point tau of a bosonic
\* imaginary-time mesh that has the same beta and the same number of points
\* as the fermionic time mesh of the transformed G0, then transforms back to
\* (momentum, bosonic frequency)
C23_BubbleFill ==
    /\ pc \in {"chi0", "fill", "return", "done"} =>
        /\ grt.mesh[2].kind = "imtime" /\ grt.mesh[2].S = "Fermion"
        /\ mtb.kind = "imtime" /\ mtb.S = "Boson"
        /\ mtb.beta = grt.mesh[2].beta /\ mtb.beta = beta
        /\ mtb.size = grt.mesh[2].size
    /\ pc \in {"fill", "return", "done"} =>
        /\ chi0_rt.mesh = <<grt.mesh[1], mtb>>
        /\ DOMAIN chi0_rt.data =
               (0 .. (n_k * n_k - 1)) \X (0 .. (mtb.size - 1))
        /\ \A l \in 0 .. (n_k * n_k - 1), j \in 0 .. (mtb.size - 1) :
              chi0_rt.data[<<l, j>>] =
                  IF Filled(l, j)
                  THEN CMul(CScale(RInt(2),
                                   grt.data[<<NegIndex(l), mtb.size - 1 - j>>]),
                            grt.data[<<l, j>>])
                  ELSE CZero
    /\ pc = "done" =>
        /\ chi0.mesh = <<BZMesh, MeshImFreq(beta, "Boson", N_IW)>>
        /\ chi0.fourier = chi0_rt

\* bubble has returned, and at a point r # -r and a time tau # beta - tau
\* the value is neither the product without the reflection of r nor the one
\* without the reflection of tau
C23_Witness ==
    /\ pc = "done"
    /\ NegIndex(1) # 1
    /\ chi0_rt.data[<<1, 1>>] #
           CMul(CScale(RInt(2), grt.data[<<1, mtb.size - 2>>]),
                grt.data[<<1, 1>>])
    /\ chi0_rt.data[<<1, 1>>] #
           CMul(CScale(RInt(2), grt.data[<<NegIndex(1), 1>>]),
                grt.data[<<1, 1>>])

====
